---- MODULE Spec2Model ----
(***************************************************************************)
(* A model of the Dash Platform CLI library: the start-height resolver,    *)
(* the input validators and the client/SDK sequencing of every library     *)
(* operation.  Two generations of the library are in the repository: the   *)
(* positional-argument one (src/dashLibrary.js, "legacy") and the          *)
(* options-object one (src/unnamed/part_003, "current").  Both are         *)
(* modelled; the variable `version` says which one an invocation runs.     *)
(*                                                                         *)
(* One behaviour of Spec is one invocation of one library operation.  An   *)
(* action is the code that runs between two awaits.                        *)
(***************************************************************************)
EXTENDS Integers, Sequences, FiniteSets, TLC

(***************************************************************************)
(* Bounds of the model.                                                    *)
(***************************************************************************)
\* transaction ids are 1..MaxTxs; a provider's list holds each at most once
MaxTxs == 2
\* confirmed block heights reported by a provider are 1..MaxHeight
MaxHeight == 2

(***************************************************************************)
(* JavaScript values.                                                      *)
(***************************************************************************)
\* an option that was not given / an unset environment variable ('' or undefined)
Absent == ""
\* undefined, where the code tells it from the empty string
Undefined == "undefined"
\* !v on a string or undefined
Falsy(v) == v \in {Absent, Undefined}
\* a || b on strings
Or(a, b) == IF ~Falsy(a) THEN a ELSE b
\* an optional number: <<>> is undefined/null/NaN, <<n>> is the number n
None == <<>>
Some(n) == <<n>>
\* !!h for an optional number
Truthy(h) == h # None /\ h[1] # 0

RECURSIVE Reverse(_)
\* Array.prototype.reverse
Reverse(s) == IF s = <<>> THEN <<>> ELSE Append(Reverse(Tail(s)), Head(s))

(***************************************************************************)
(* The two height providers.  A response either never arrives (fetch       *)
(* throws), arrives with a non-OK status, arrives with a body that is not  *)
(* JSON, or arrives OK with data.  An error response carries no result.    *)
(***************************************************************************)
TxIds == 1..MaxTxs

\* the transaction-id lists a provider can report.  Ids are numbered in
\* chronological order (1 is the oldest); a provider lists an address's
\* transactions oldest first or newest first
TxLists ==
  UNION {{[i \in 1..n |-> i], [i \in 1..n |-> n + 1 - i]} : n \in 0..MaxTxs}

\* height fields of a transaction record: missing, -1 (unconfirmed), 0, confirmed
HeightValues == {None} \cup {Some(h) : h \in (-1)..MaxHeight}

NoData(st) == [status |-> st, list |-> <<>>, height |-> None]
Failures == {NoData("throw"), NoData("nonok"), NoData("badjson")}
ListResponses == Failures \cup {[status |-> "ok", list |-> l, height |-> None] : l \in TxLists}
TxResponses == Failures \cup {[status |-> "ok", list |-> <<>>, height |-> h] : h \in HeightValues}

Request(provider, kind, txid) == [provider |-> provider, kind |-> kind, txid |-> txid]

(***************************************************************************)
(* The start-height resolver's decisions, current library                  *)
(* (findStartHeight of part_003).                                          *)
(***************************************************************************)
\* the address's transaction ids were obtained from the RPC provider
findStartHeight_rpcTxidsUsable(resp) ==
  /\ resp.status = "ok"          \* fetch resolved, txidsResponse.ok, body is JSON
  /\ resp.list # <<>>            \* result is a non-empty array

\* the transaction record of the RPC provider holds a valid block height
\* a variant that also refuses the height of the first block
findStartHeight_rpcHeightValid_aboveOne(resp) ==
  /\ resp.status = "ok"
  /\ Truthy(resp.height)
  /\ ~(resp.height[1] <= 1)

findStartHeight_rpcHeightValid(resp) ==
  /\ resp.status = "ok"
  /\ Truthy(resp.height)
  /\ ~(resp.height[1] <= 0)

\* the address's transactions were obtained from the Insight provider
findStartHeight_insightUsable(resp) ==
  /\ resp.status = "ok"
  /\ resp.list # <<>>

\* the transaction record of the Insight provider holds a valid block height
findStartHeight_insightHeightValid(resp) ==
  /\ resp.status = "ok"
  /\ Truthy(resp.height)
  /\ ~(resp.height[1] <= 0)

(***************************************************************************)
(* The same decisions in the legacy library (findFirstTransactionBlock of  *)
(* src/dashLibrary.js): the RPC status and the status of both transaction  *)
(* lookups are not looked at, and a height only has to be truthy.          *)
(***************************************************************************)
findFirstTransactionBlock_rpcTxidsUsable(resp) ==
  /\ resp.status \notin {"throw", "badjson"}   \* fetch and .json() did not throw
  /\ resp.list # <<>>                          \* result && result.length > 0

findFirstTransactionBlock_rpcHeightValid(resp) ==
  /\ resp.status \notin {"throw", "badjson"}
  /\ Truthy(resp.height)                       \* result && result.height

findFirstTransactionBlock_insightUsable(resp) ==
  /\ resp.status = "ok"                        \* !response.ok throws
  /\ resp.list # <<>>

findFirstTransactionBlock_insightHeightValid(resp) ==
  /\ resp.status \notin {"throw", "badjson"}
  /\ Truthy(resp.height)                       \* firstTx && firstTx.blockheight

\* legacy findStartHeight: blockHeight || 1
findStartHeight_legacy(blockHeight) == IF Truthy(blockHeight) THEN blockHeight ELSE Some(1)

\* the first transaction id of the RPC provider's list: txidsData.result[0]
FirstTxId(list) == list[1]

\* a variant that keeps the order the Insight provider answered in
OldestFirst_asListed(list) == list

\* the Insight provider lists newest first: data.transactions.reverse()
OldestFirst(list) == Reverse(list)

\* a variant that asks both providers at once
FirstRequests_both == {Request("rpc", "txids", 0), Request("insight", "addr", 0)}

\* the requests findStartHeight has in flight after its first fetch
FirstRequests == {Request("rpc", "txids", 0)}

(***************************************************************************)
(* Strings that the code looks into are sequences of characters.           *)
(***************************************************************************)
Digits == <<"0", "1", "2", "3", "4", "5", "6", "7", "8", "9">>
IsDigit(c) == \E i \in 1..10 : Digits[i] = c
DigitValue(c) == (CHOOSE i \in 1..10 : Digits[i] = c) - 1

RECURSIVE LeadingDigits(_, _)
\* the value of the longest prefix of digits of s, from the accumulator acc
LeadingDigits(s, acc) ==
  IF s = <<>> \/ ~IsDigit(Head(s)) THEN acc
  ELSE LeadingDigits(Tail(s), acc * 10 + DigitValue(Head(s)))

RECURSIVE SkipSpaces(_)
SkipSpaces(s) == IF s # <<>> /\ Head(s) = " " THEN SkipSpaces(Tail(s)) ELSE s

\* parseInt(string): leading white space, a sign, then the digits up to the
\* first other character; NaN (None) when there is no digit
parseInt(str) ==
  LET t == SkipSpaces(str)
      neg == t # <<>> /\ Head(t) = "-"
      u == IF t # <<>> /\ Head(t) \in {"-", "+"} THEN Tail(t) ELSE t
  IN IF u = <<>> \/ ~IsDigit(Head(u)) THEN None
     ELSE Some(IF neg THEN 0 - LeadingDigits(u, 0) ELSE LeadingDigits(u, 0))

MINIMUM_TOPUP_AMOUNT == 50000

\* parsedAmount < MINIMUM_TOPUP_AMOUNT: a comparison with NaN is false
BelowMinimum(parsedAmount) == parsedAmount # None /\ parsedAmount[1] < MINIMUM_TOPUP_AMOUNT

(***************************************************************************)
(* validateIdentityName: the regular expression, matched as a regular      *)
(* expression (a sequence of character classes, each repeated min..max     *)
(* times, anchored at both ends).                                          *)
(***************************************************************************)
Letters ==
  {"a", "b", "c", "d", "e", "f", "g", "h", "i", "j", "k", "l", "m",
   "n", "o", "p", "q", "r", "s", "t", "u", "v", "w", "x", "y", "z",
   "A", "B", "C", "D", "E", "F", "G", "H", "I", "J", "K", "L", "M",
   "N", "O", "P", "Q", "R", "S", "T", "U", "V", "W", "X", "Y", "Z"}
AlNum == Letters \cup {Digits[i] : i \in 1..10}

\* a variant whose interior may be one character longer
IDENTITY_NAME_REGEX_longer ==
  << [cls |-> AlNum, min |-> 1, max |-> 1],
     [cls |-> AlNum \cup {"-"}, min |-> 0, max |-> 62],
     [cls |-> AlNum, min |-> 1, max |-> 1] >>

\* /^[a-zA-Z0-9][a-zA-Z0-9-]{0,61}[a-zA-Z0-9]$/
IDENTITY_NAME_REGEX ==
  << [cls |-> AlNum, min |-> 1, max |-> 1],
     [cls |-> AlNum \cup {"-"}, min |-> 0, max |-> 61],
     [cls |-> AlNum, min |-> 1, max |-> 1] >>

RECURSIVE MatchFrom(_, _, _, _)
\* items p.. of the pattern match the string from position pos to its end
MatchFrom(pat, str, p, pos) ==
  IF p > Len(pat) THEN pos = Len(str) + 1
  ELSE \E n \in pat[p].min..pat[p].max :
         /\ pos + n - 1 <= Len(str)
         /\ \A j \in pos..(pos + n - 1) : str[j] \in pat[p].cls
         /\ MatchFrom(pat, str, p + 1, pos + n)

\* RegExp.prototype.test on a string
RegexTest(pat, str) == MatchFrom(pat, str, 1, 1)

\* TRUE when validateIdentityName returns true, FALSE when it throws
validateIdentityName(name) == RegexTest(IDENTITY_NAME_REGEX, name)

(***************************************************************************)
(* JSON-typed parameters.  A parameter is not given, or is text that does  *)
(* not parse ("malformed"), or parses to an object ("object", the value    *)
(* in `value`) or to something else ("other": null, a number, a string).   *)
(* An object keeps its keys in insertion order: a sequence of entries.     *)
(***************************************************************************)
Json(kind, value) == [given |-> TRUE, json |-> kind, value |-> value]
NotGiven == [given |-> FALSE, json |-> "other", value |-> <<>>]
Entry(name, def) == [name |-> name, def |-> def]

\* a property definition: type ("" when missing) and position with its typeof
PropDef(type, postype, pos) == [type |-> type, position |-> [t |-> postype, v |-> pos]]

\* the first rule a property entry breaks: <<>> when none
PropError(docType, e) ==
  IF e.def.type = "" THEN <<"propType", docType, e.name>>
  ELSE IF e.def.position.t # "number" THEN <<"propPosition", docType, e.name>>
  ELSE <<>>

RECURSIVE FirstPropError(_, _)
FirstPropError(docType, props) ==
  IF props = <<>> THEN <<>>
  ELSE LET r == PropError(docType, Head(props))
       IN IF r # <<>> THEN r ELSE FirstPropError(docType, Tail(props))

\* the first rule a document type's schema breaks: <<>> when none
SchemaError(docType, schema) ==
  IF schema.type # "object" THEN <<"type", docType, "">>
  ELSE IF schema.propsKind # "object" THEN <<"properties", docType, "">>
  ELSE LET r == FirstPropError(docType, schema.properties)
       IN IF r # <<>> THEN r
          ELSE IF schema.additionalProperties \notin {"true", "false"}
               THEN <<"additionalProperties", docType, "">>
               ELSE <<>>

\* a variant that stops after the first document type
FirstSchemaError_onlyFirst(entries) ==
  IF entries = <<>> THEN <<>>
  ELSE SchemaError(Head(entries).name, Head(entries).def)

RECURSIVE FirstSchemaError(_)
FirstSchemaError(entries) ==
  IF entries = <<>> THEN <<>>
  ELSE LET r == SchemaError(Head(entries).name, Head(entries).def)
       IN IF r # <<>> THEN r ELSE FirstSchemaError(Tail(entries))

\* validateContractDefinition: <<>> when it returns true, else the error
\* <<rule, document type, property>> it throws
validateContractDefinition(contractDef) ==
  IF contractDef.given /\ contractDef.json = "malformed" THEN <<"parse", "", "">>
  ELSE IF ~contractDef.given \/ contractDef.json # "object" \/ contractDef.value = <<>>
       THEN <<"empty", "", "">>
       ELSE FirstSchemaError(contractDef.value)

(***************************************************************************)
(* validateIndices.  An index: name ("" when missing), properties (absent, *)
(* an array, or something else) and unique with its typeof.                *)
(***************************************************************************)
Index(name, propsKind, props, unique) ==
  [name |-> name, propsKind |-> propsKind, properties |-> props, unique |-> unique]

IndexError(index) ==
  IF index.name = "" THEN <<"name">>
  ELSE IF index.propsKind # "array" THEN <<"properties">>
  ELSE IF index.unique \notin {"true", "false"} THEN <<"unique">>
  ELSE <<>>

RECURSIVE FirstIndexError(_)
FirstIndexError(indices) ==
  IF indices = <<>> THEN <<>>
  ELSE LET r == IndexError(Head(indices))
       IN IF r # <<>> THEN r ELSE FirstIndexError(Tail(indices))

\* a variant that does not wrap a single index object: forEach is then not
\* a function of it
validateIndices_noWrap(indices) ==
  IF indices.value.single
  THEN [error |-> <<"TypeError">>, indices |-> <<>>]
  ELSE [error |-> FirstIndexError(indices.value.items), indices |-> indices.value.items]

\* JSON.parse(args.indices) then validateIndices: a single index object
\* (value.single) is wrapped into a one-element array first.  The result is
\* [error, indices]: error is <<>> when the indices are returned
validateIndices(indices) ==
  LET arr == IF indices.value.single THEN <<indices.value.items[1]>> ELSE indices.value.items
  IN [error |-> FirstIndexError(arr), indices |-> arr]

\* the try block around JSON.parse and validateIndices: TRUE when it throws
IndicesRejected(indices) ==
  \/ indices.json \in {"malformed", "other"}
  \/ indices.json = "object" /\ validateIndices(indices).error # <<>>

\* a variant without the check of the positions already in use
NewPropertyError_noConflictCheck(existingPositions, e) ==
  IF e.def.position.t # "number" THEN <<"propPosition", e.name>>
  ELSE IF e.def.type = "" THEN <<"propType", e.name>>
  ELSE <<>>

\* updateContract's checks of the new properties against the positions the
\* existing schema uses: <<>> when all pass, else the first error
NewPropertyError(existingPositions, e) ==
  IF e.def.position \in existingPositions THEN <<"positionConflict", e.name>>
  ELSE IF e.def.position.t # "number" THEN <<"propPosition", e.name>>
  ELSE IF e.def.type = "" THEN <<"propType", e.name>>
  ELSE <<>>

RECURSIVE FirstNewPropertyError(_, _)
FirstNewPropertyError(existingPositions, props) ==
  IF props = <<>> THEN <<>>
  ELSE LET r == NewPropertyError(existingPositions, Head(props))
       IN IF r # <<>> THEN r ELSE FirstNewPropertyError(existingPositions, Tail(props))

\* new Set(Object.values(schema.properties).map(prop => prop.position))
ExistingPositions(schema) == {schema.properties[i].def.position : i \in DOMAIN schema.properties}

\* TRUE when the new-properties block of updateContract throws
NewPropertiesRejected(schema, newProperties) ==
  \/ newProperties.json \in {"malformed", "other"}
  \/ newProperties.json = "object"
     /\ FirstNewPropertyError(ExistingPositions(schema), newProperties.value) # <<>>

(***************************************************************************)
(* The state of one invocation.                                            *)
(***************************************************************************)
VARIABLES
  version,   \* "legacy" (src/dashLibrary.js) or "current" (part_003)
  op,        \* the library operation invoked
  args,      \* its options
  env,       \* process.env
  pc,        \* the next step of the operation's body
  sub,       \* where a called helper (getBestBlockHeight, findStartHeight) is
  phase,     \* "run", "finally" (the finally block is due) or "done"
  inTry,     \* inside the operation's try block
  clients,   \* the SDK clients created so far: [factory, open, skip]
  client,    \* the operation's `client` variable: an index of clients, 0 when undefined
  found,     \* whether the last SDK lookup returned something
  sdkLog,    \* the SDK methods called so far, in order
  inflight,  \* provider requests awaiting their response
  netLog,    \* provider requests answered so far, with their responses
  txs,       \* the transaction list the resolver is working on
  height,    \* the height obtained for the client (None: not obtained)
  resolver,  \* findStartHeight: "idle", "running", "returned" or "thrown"
  err,       \* the error thrown, innermost message last (<<>>: none)
  batch,     \* the document batches passed to documents.broadcast, in order
  heap,      \* the objects at work, by address: the schemas of updateContract,
             \* the document the platform holds for a replace
  documentSchema,  \* updateContract: the address of the existing schema
  updatedSchema,   \* updateContract: the address of the schema being composed
  returned,  \* the value a validator returned
  command,   \* the command-line handler: the <command> argument
  options,   \* the options as parsed from the command line
  called,    \* the library functions the handler has called, with what they used
  existingDocument   \* the document fetched for a replace, field by field

vars == <<version, op, args, env, pc, sub, phase, inTry, clients, client, found,
          sdkLog, inflight, netLog, txs, height, resolver, err,
          batch, heap, documentSchema, updatedSchema, returned,
          command, options, called, existingDocument>>
cli == <<command, options, called, existingDocument>>
work == <<heap, documentSchema, updatedSchema, returned, cli>>
inputs == <<version, op, args, env>>
net == <<inflight, netLog, txs, resolver>>

\* getIdentityId, getContractId, getDocumentId, getAddress: args, then env
getIdentityId == Or(args.identityId, env.IDENTITY_ID)
getContractId == Or(args.contractId, env.CONTRACT_ID)
getDocumentId == Or(args.documentId, env.DOCUMENT_ID)
getAddress == Or(args.address, env.ADDRESS)

(***************************************************************************)
(* The steps of an operation's body.                                       *)
(*   Chk(ok, msg)   a local check: throws msg unless ok                    *)
(*   Bbh            const height = await getBestBlockHeight(args)          *)
(*   Fsh            const height = await findStartHeight(...)              *)
(*   New(factory)   client = dashClient(...) or walletClient(...)          *)
(*   Try            the try block opens (its finally disconnects client)   *)
(*   Call(name)     an awaited SDK method that returns a value or throws   *)
(*   Get(name)      an SDK lookup that may also return nothing             *)
(*   Found(msg)     throws msg when the last lookup returned nothing       *)
(*   Data(msg)      a check of fetched data: throws msg when it fails      *)
(***************************************************************************)
Step(k, ok, name) == [k |-> k, ok |-> ok, name |-> name]
Chk(ok, msg) == Step("check", ok, msg)
Bbh == Step("bbh", TRUE, "getBestBlockHeight")
Fsh == Step("fsh", TRUE, "findStartHeight")
New(factory) == Step("client", TRUE, factory)
Try == Step("try", TRUE, "")
Call(name) == Step("sdk", FALSE, name)
Get(name) == Step("sdk", TRUE, name)
Found(msg) == Step("found", TRUE, msg)
Data(msg) == Step("data", TRUE, msg)

\* the schema the contract fetched by updateContract holds for the document type
ExistingSchema ==
  [type |-> "object", propsKind |-> "object",
   properties |-> <<Entry("message", PropDef("string", "number", 0))>>,
   additionalProperties |-> "false"]

(***************************************************************************)
(* The bodies of the library operations of the current library.            *)
(***************************************************************************)
createWallet ==
  << New("dashClient"), Try, Call("getWalletAccount"), Call("wallet.exportWallet") >>

getUnusedAddress ==
  << Chk(env.MNEMONIC # Absent, "No wallet mnemonic configured"),
     Bbh, New("dashClient"), Try,
     Call("getWalletAccount"), Call("account.getUnusedAddress") >>

createIdentity ==
  << Chk(getAddress # Absent, "Address is required for creating an identity"),
     Fsh, New("dashClient"), Try, Call("identities.register") >>

retrieveIdentity ==
  << Chk(getIdentityId # Absent, "Identity ID is required."),
     New("dashClient"), Try,
     Get("identities.get"), Found("TypeError") >>

topupIdentity ==
  << Chk(getIdentityId # Absent, "Identity ID is required."),
     Chk(getAddress # Absent, "Address is required."),
     Chk(args.topupAmount # <<>>, "Topup amount is required."),
     Chk(~BelowMinimum(parseInt(args.topupAmount)), "Topup amount must be at least"),
     Fsh, New("dashClient"), Try,
     Call("identities.topUp"), Get("identities.get"), Found("TypeError") >>

\* a variant that validates the name only after registering it
registerName_validatesLate ==
  << Chk(args.identityName # <<>>, "Identity Name is required."),
     Bbh,
     New("dashClient"), Try,
     Get("identities.get"), Found("TypeError"), Call("names.register"),
     Chk(validateIdentityName(args.identityName), "Invalid identity name.") >>

registerName ==
  << Chk(args.identityName # <<>>, "Identity Name is required."),
     Bbh,
     Chk(validateIdentityName(args.identityName), "Invalid identity name."),
     New("dashClient"), Try,
     Get("identities.get"), Found("TypeError"), Call("names.register") >>

getIdentityIds ==
  << Bbh, New("dashClient"), Try,
     Call("getWalletAccount"), Call("account.identities.getIdentityIds") >>

registerContract ==
  << Chk(getIdentityId # Absent, "Identity ID is required."),
     Bbh, New("dashClient"), Try,
     Get("identities.get"),
     Chk(validateContractDefinition(args.contractDef) = <<>>, "Invalid contract definition") >>
  \o (IF args.indices.given
      THEN << Chk(~IndicesRejected(args.indices), "Invalid indices format") >>
      ELSE << >>)
  \o << Call("contracts.create"), Call("contracts.publish") >>

updateContract ==
  << Bbh, New("dashClient"), Try,
     Chk(getIdentityId # Absent, "Identity ID is required."),
     Chk(getContractId # Absent, "Contract ID is required."),
     Get("identities.get"), Get("contracts.get"), Found("TypeError"),
     Data("Document type not found in contract") >>
  \o (IF args.newProperties.given
      THEN << Chk(~NewPropertiesRejected(ExistingSchema, args.newProperties),
                  "Invalid new properties") >>
      ELSE << >>)
  \o (IF args.indices.given
      THEN << Chk(~IndicesRejected(args.indices), "Invalid indices format") >>
      ELSE << >>)
  \o << Call("contracts.update") >>

retrieveContract ==
  << Chk(getContractId # Absent, "Contract ID is required."),
     Bbh, New("dashClient"), Try,
     Get("contracts.get"), Found("Contract not found") >>

retrieveContractHistory ==
  << Chk(getContractId # Absent, "Contract ID is required."),
     New("dashClient"), Try, Call("contracts.history") >>

\* a variant that also requires and parses the document data for delete
submitDocument_parsesForDelete ==
  << Chk(getIdentityId # Absent, "Identity ID is required."),
     Chk(getContractId # Absent, "Contract ID is required."),
     Bbh, New("dashClient"), Try,
     Get("identities.get") >>
  \o (IF args.action = "create"
      THEN << Chk(args.documentData.given, "document-data is required for create action"),
              Chk(args.documentData.json # "malformed", "SyntaxError"),
              Call("documents.create") >>
      ELSE << Chk(getDocumentId # Absent, "Document ID is required."),
              Get("documents.get"),
              Found("Document not found") >>
           \o (IF args.action # "create"
               THEN << Chk(args.documentData.given,
                           "document-data is required for replace action"),
                       Chk(args.documentData.json # "malformed", "SyntaxError") >>
               ELSE << >>))
  \o << Call("documents.broadcast") >>

submitDocument ==
  << Chk(getIdentityId # Absent, "Identity ID is required."),
     Chk(getContractId # Absent, "Contract ID is required."),
     Bbh, New("dashClient"), Try,
     Get("identities.get") >>
  \o (IF args.action = "create"
      THEN << Chk(args.documentData.given, "document-data is required for create action"),
              Chk(args.documentData.json # "malformed", "SyntaxError"),
              Call("documents.create") >>
      ELSE << Chk(getDocumentId # Absent, "Document ID is required."),
              Get("documents.get"),
              Found("Document not found") >>
           \o (IF args.action = "replace"
               THEN << Chk(args.documentData.given,
                           "document-data is required for replace action"),
                       Chk(args.documentData.json # "malformed", "SyntaxError") >>
               ELSE << >>))
  \o << Call("documents.broadcast") >>

retrieveDocuments ==
  << New("dashClient"), Try, Call("documents.get") >>

deleteDocument ==
  << Chk(getIdentityId # Absent, "Identity ID is required."),
     Chk(getDocumentId # Absent, "Document ID is required."),
     Bbh, New("dashClient"), Try,
     Get("identities.get"), Get("documents.get"), Found("Document not found"),
     Call("documents.broadcast") >>

\* the try block opens before the client is created
listIdentityPublicKeys ==
  << Try,
     Chk(getIdentityId # Absent, "Identity ID is required"),
     Bbh, New("dashClient"),
     Get("identities.get"), Found("IDENTITY_NOT_FOUND") >>

\* the try block opens only after the wallet account and the parameter check
getPrivateKeyFromPublicKey ==
  << Bbh, New("walletClient"),
     Call("wallet.getAccount"), Call("account.isReady"),
     Chk(getIdentityId # Absent /\ args.publicKeyId # Absent,
         "Identity ID and Public Key ID are required"),
     Try,
     Get("identities.get"), Found("TypeError"),
     Data("Public key not found in identity"),
     Call("wallet.identities.getIdentityHDKeyById") >>

(***************************************************************************)
(* The operations of the legacy library that use the start-height          *)
(* resolver: their parameters are positional, with no environment          *)
(* fallback and no presence check of the identity ID or the address.       *)
(***************************************************************************)
createIdentity_legacy ==
  << Fsh, New("dashClient"), Try, Call("identities.register") >>

topupIdentity_legacy ==
  << Chk(args.topupAmount # <<>>, "Topup amount is required."),
     Chk(~BelowMinimum(parseInt(args.topupAmount)), "Topup amount must be at least"),
     Fsh, New("dashClient"), Try,
     Call("identities.topUp"), Get("identities.get"), Found("TypeError") >>

CurrentOps ==
  {"createWallet", "getUnusedAddress", "createIdentity", "retrieveIdentity",
   "topupIdentity", "registerName", "getIdentityIds", "registerContract",
   "updateContract", "retrieveContract", "retrieveContractHistory",
   "submitDocument", "retrieveDocuments", "deleteDocument",
   "listIdentityPublicKeys", "getPrivateKeyFromPublicKey"}
LegacyOps == {"createIdentity", "topupIdentity"}

\* the body of the operation being run
Program ==
  IF version = "legacy"
  THEN (IF op = "createIdentity" THEN createIdentity_legacy ELSE topupIdentity_legacy)
  ELSE CASE op = "createWallet" -> createWallet
         [] op = "getUnusedAddress" -> getUnusedAddress
         [] op = "createIdentity" -> createIdentity
         [] op = "retrieveIdentity" -> retrieveIdentity
         [] op = "topupIdentity" -> topupIdentity
         [] op = "registerName" -> registerName
         [] op = "getIdentityIds" -> getIdentityIds
         [] op = "registerContract" -> registerContract
         [] op = "updateContract" -> updateContract
         [] op = "retrieveContract" -> retrieveContract
         [] op = "retrieveContractHistory" -> retrieveContractHistory
         [] op = "submitDocument" -> submitDocument
         [] op = "retrieveDocuments" -> retrieveDocuments
         [] op = "deleteDocument" -> deleteDocument
         [] op = "listIdentityPublicKeys" -> listIdentityPublicKeys
         [] OTHER -> getPrivateKeyFromPublicKey

\* operations whose catch block rethrows the error under a new message
CatchPrefix ==
  IF version = "legacy" THEN ""
  ELSE CASE op = "createIdentity" -> "Failed to create identity"
         [] op = "updateContract" -> "Failed to update contract"
         [] op = "retrieveContract" -> "Failed to retrieve contract"
         [] OTHER -> ""

\* finally blocks that call client.disconnect() on whatever client is: all
\* but the legacy createIdentity, which tests client first
FinallyGuarded == version = "legacy" /\ op = "createIdentity"

\* the SDK methods that change state on the platform
StateChanging ==
  {"names.register", "contracts.create", "contracts.publish", "contracts.update",
   "documents.broadcast", "identities.register", "identities.topUp"}

(***************************************************************************)
(* The inputs of an invocation: the options and environment variables the  *)
(* operation reads take every value of their domain, the others are unset. *)
(***************************************************************************)
TopupAmounts ==
  { <<>>, <<"a", "b", "c">>, <<"4", "9", "9", "9", "9">>, <<"5", "0", "0", "0", "0">> }
NameSamples == { <<>>, <<"a", "b">>, <<"a", "-">> }

ValidSchema ==
  [type |-> "object", propsKind |-> "object",
   properties |-> <<Entry("message", PropDef("string", "number", 0))>>,
   additionalProperties |-> "false"]
ContractDefSamples ==
  { NotGiven, Json("malformed", <<>>),
    Json("object", <<Entry("note", ValidSchema)>>),
    Json("object", <<Entry("note", [ValidSchema EXCEPT !.additionalProperties = "undefined"])>>) }
IndicesSamples ==
  { NotGiven, Json("malformed", [single |-> FALSE, items |-> <<>>]),
    Json("object", [single |-> TRUE, items |-> <<Index("byMessage", "array", <<"message">>, "true")>>]),
    Json("object", [single |-> FALSE, items |-> <<Index("byMessage", "array", <<"message">>, "undefined")>>]) }
NewPropertiesSamples ==
  { NotGiven, Json("malformed", <<>>),
    Json("object", <<Entry("author", PropDef("string", "number", 1))>>),
    Json("object", <<Entry("author", PropDef("string", "number", 0))>>),
    Json("object", <<Entry("author", PropDef("string", "undefined", 0))>>) }
DocumentDataSamples == { NotGiven, Json("malformed", <<>>), Json("object", <<>>) }
ActionSamples == { Absent, "create", "replace", "delete", "purge" }

NoArgs ==
  [identityId |-> Absent, contractId |-> Absent, documentId |-> Absent,
   address |-> Absent, publicKeyId |-> Absent, action |-> Absent,
   topupAmount |-> <<>>, identityName |-> <<>>,
   contractDef |-> NotGiven, indices |-> NotGiven, newProperties |-> NotGiven,
   documentData |-> NotGiven]
NoEnv ==
  [IDENTITY_ID |-> Absent, CONTRACT_ID |-> Absent, DOCUMENT_ID |-> Absent,
   ADDRESS |-> Absent, MNEMONIC |-> "mnemonic"]

ArgDomain(f) ==
  CASE f = "topupAmount" -> TopupAmounts
    [] f = "identityName" -> NameSamples
    [] f = "contractDef" -> ContractDefSamples
    [] f = "indices" -> IndicesSamples
    [] f = "newProperties" -> NewPropertiesSamples
    [] f = "documentData" -> DocumentDataSamples
    [] f = "action" -> ActionSamples
    [] OTHER -> {Absent, "opt"}
EnvDomain(f) == {Absent, "env"}

RECURSIVE VaryArgs(_, _)
VaryArgs(base, fields) ==
  IF fields = <<>> THEN {base}
  ELSE UNION {VaryArgs([base EXCEPT ![Head(fields)] = v], Tail(fields)) :
                v \in ArgDomain(Head(fields))}

RECURSIVE VaryEnv(_, _)
VaryEnv(base, fields) ==
  IF fields = <<>> THEN {base}
  ELSE UNION {VaryEnv([base EXCEPT ![Head(fields)] = v], Tail(fields)) :
                v \in EnvDomain(Head(fields))}

\* the options an operation reads
ArgFields(v, o) ==
  IF v = "legacy"
  THEN (IF o = "createIdentity" THEN <<"address">> ELSE <<"address", "topupAmount">>)
  ELSE CASE o = "createIdentity" -> <<"address">>
         [] o = "retrieveIdentity" -> <<"identityId">>
         [] o = "topupIdentity" -> <<"identityId", "address", "topupAmount">>
         [] o = "registerName" -> <<"identityId", "identityName">>
         [] o = "registerContract" -> <<"identityId", "contractDef", "indices">>
         [] o = "updateContract" -> <<"identityId", "contractId", "newProperties", "indices">>
         [] o = "retrieveContract" -> <<"contractId">>
         [] o = "retrieveContractHistory" -> <<"contractId">>
         [] o = "submitDocument" ->
              <<"identityId", "contractId", "documentId", "action", "documentData">>
         [] o = "retrieveDocuments" -> <<"documentId">>
         [] o = "deleteDocument" -> <<"identityId", "documentId">>
         [] o = "listIdentityPublicKeys" -> <<"identityId">>
         [] o = "getPrivateKeyFromPublicKey" -> <<"identityId", "publicKeyId">>
         [] OTHER -> << >>

\* the environment variables an operation reads
EnvFields(v, o) ==
  IF v = "legacy" THEN << >>
  ELSE CASE o = "getUnusedAddress" -> <<"MNEMONIC">>
         [] o = "createIdentity" -> <<"ADDRESS">>
         [] o = "retrieveIdentity" -> <<"IDENTITY_ID">>
         [] o = "topupIdentity" -> <<"IDENTITY_ID", "ADDRESS">>
         [] o = "registerName" -> <<"IDENTITY_ID">>
         [] o = "registerContract" -> <<"IDENTITY_ID">>
         [] o = "updateContract" -> <<"IDENTITY_ID", "CONTRACT_ID">>
         [] o = "retrieveContract" -> <<"CONTRACT_ID">>
         [] o = "retrieveContractHistory" -> <<"CONTRACT_ID">>
         [] o = "submitDocument" -> <<"IDENTITY_ID", "CONTRACT_ID", "DOCUMENT_ID">>
         [] o = "retrieveDocuments" -> <<"DOCUMENT_ID">>
         [] o = "deleteDocument" -> <<"IDENTITY_ID", "DOCUMENT_ID">>
         [] o = "listIdentityPublicKeys" -> <<"IDENTITY_ID">>
         [] o = "getPrivateKeyFromPublicKey" -> <<"IDENTITY_ID">>
         [] OTHER -> << >>

Init ==
  /\ version \in {"legacy", "current"}
  /\ op \in (IF version = "legacy" THEN LegacyOps ELSE CurrentOps)
  /\ args \in VaryArgs(NoArgs, ArgFields(version, op))
  /\ env \in VaryEnv(NoEnv, EnvFields(version, op))
  /\ pc = 1
  /\ sub = ""
  /\ phase = "run"
  /\ inTry = FALSE
  /\ clients = <<>>
  /\ client = 0
  /\ found = TRUE
  /\ sdkLog = <<>>
  /\ inflight = {}
  /\ netLog = <<>>
  /\ txs = <<>>
  /\ height = None
  /\ resolver = "idle"
  /\ err = <<>>
  /\ batch = <<>>
  /\ heap = <<>>
  /\ documentSchema = <<>>
  /\ updatedSchema = <<>>
  /\ returned = <<>>
  /\ command = Absent
  /\ options = NoArgs
  /\ called = <<>>
  /\ existingDocument = <<>>

(***************************************************************************)
(* Running an operation.                                                   *)
(***************************************************************************)
Running == phase = "run" /\ sub = "" /\ pc <= Len(Program)
Instr == Program[pc]

\* an error is thrown: inside the try block the finally block runs next,
\* outside it the operation ends at once
Raise(msg) ==
  /\ err' = <<msg>>
  /\ phase' = IF inTry THEN "finally" ELSE "done"

\* the wallet option skipSynchronizationBeforeHeight a factory sets from
\* args.height: dashClient parseInt(args.height) - 10 when the height is
\* truthy and no option otherwise, walletClient args.height || 0
skipSynchronizationBeforeHeight(factory, h) ==
  IF factory = "walletClient" THEN (IF Truthy(h) THEN h ELSE Some(0))
  ELSE IF ~Truthy(h) THEN None
  ELSE Some(h[1] - 10)

\* new Dash.Client(clientOpts), for the height the operation passes (the
\* --height option itself is left unset)
Opened(factory, h) ==
  Append(clients, [factory |-> factory, open |-> TRUE,
                   skip |-> skipSynchronizationBeforeHeight(factory, h)])
\* a variant that leaves the client connected
Closed_stillOpen(i) == clients
\* await client.disconnect()
Closed(i) == [clients EXCEPT ![i].open = FALSE]

\* a presence check or a validation
Check ==
  /\ Running /\ Instr.k = "check"
  /\ IF Instr.ok
     THEN pc' = pc + 1 /\ UNCHANGED <<phase, err>>
     ELSE Raise(Instr.name) /\ UNCHANGED pc
  /\ UNCHANGED <<inputs, work, batch, sub, inTry, clients, client, found, sdkLog, net, height>>

EnterTry ==
  /\ Running /\ Instr.k = "try"
  /\ inTry' = TRUE
  /\ pc' = pc + 1
  /\ UNCHANGED <<inputs, work, batch, sub, phase, clients, client, found, sdkLog, net, height, err>>

\* const client = dashClient({ ...args, height })
CreateClient ==
  /\ Running /\ Instr.k = "client"
  /\ clients' = Opened(Instr.name, height)
  /\ client' = Len(clients) + 1
  /\ pc' = pc + 1
  /\ UNCHANGED <<inputs, work, batch, sub, phase, inTry, found, sdkLog, net, height, err>>

\* submitDocument's documentBatch: the document goes into the sequence of
\* the action, the other sequences are empty
documentBatch(action, document) ==
  [create |-> IF action = "create" THEN <<document>> ELSE <<>>,
   replace |-> IF action = "replace" THEN <<document>> ELSE <<>>,
   delete |-> IF action = "delete" THEN <<document>> ELSE <<>>]

\* the batch the operation passes to documents.broadcast: submitDocument's
\* documentBatch, deleteDocument's { delete: [document] }
Broadcast ==
  IF op = "submitDocument"
  THEN documentBatch(args.action, IF args.action = "create" THEN "created" ELSE "existing")
  ELSE [create |-> <<>>, replace |-> <<>>, delete |-> <<"existing">>]

\* an awaited SDK method: it returns a value, returns nothing (a lookup of
\* something that does not exist) or throws
SdkCall ==
  /\ Running /\ Instr.k = "sdk"
  /\ sdkLog' = Append(sdkLog, Instr.name)
  /\ batch' = (IF Instr.name = "documents.broadcast"
               THEN Append(batch, Broadcast) ELSE batch)
  /\ \E outcome \in (IF Instr.ok THEN {"ok", "absent", "throw"} ELSE {"ok", "throw"}) :
       IF outcome = "throw"
       THEN Raise("SDK error") /\ UNCHANGED <<pc, found>>
       ELSE found' = (outcome = "ok") /\ pc' = pc + 1 /\ UNCHANGED <<phase, err>>
  /\ UNCHANGED <<inputs, work, sub, inTry, clients, client, net, height>>

\* if (!existingDocument) throw ..., or the use of a missing result
FoundCheck ==
  /\ Running /\ Instr.k = "found"
  /\ IF found
     THEN pc' = pc + 1 /\ UNCHANGED <<phase, err>>
     ELSE Raise(Instr.name) /\ UNCHANGED pc
  /\ UNCHANGED <<inputs, work, batch, sub, inTry, clients, client, found, sdkLog, net, height>>

\* a check of what the platform returned (the document type's schema, the
\* public key among the identity's keys)
DataCheck ==
  /\ Running /\ Instr.k = "data"
  /\ \E pass \in BOOLEAN :
       IF pass
       THEN pc' = pc + 1 /\ UNCHANGED <<phase, err>>
       ELSE Raise(Instr.name) /\ UNCHANGED pc
  /\ UNCHANGED <<inputs, work, batch, sub, inTry, clients, client, found, sdkLog, net, height>>

(***************************************************************************)
(* getBestBlockHeight: a client of its own, disconnected in its finally.   *)
(***************************************************************************)
BestHeights == 1..MaxHeight

getBestBlockHeight_open ==
  /\ Running /\ Instr.k = "bbh"
  /\ clients' = Opened("dashClient", None)
  /\ sub' = "bbh:call"
  /\ UNCHANGED <<inputs, work, batch, pc, phase, inTry, client, found, sdkLog, net, height, err>>

getBestBlockHeight_call ==
  /\ sub = "bbh:call"
  /\ sdkLog' = Append(sdkLog, "core.getBestBlockHeight")
  /\ \/ \E h \in BestHeights : height' = Some(h) /\ sub' = "bbh:return"
     \/ sub' = "bbh:throw" /\ UNCHANGED height
  /\ UNCHANGED <<inputs, work, batch, pc, phase, inTry, clients, client, found, net, err>>

getBestBlockHeight_finally ==
  /\ sub \in {"bbh:return", "bbh:throw"}
  /\ clients' = Closed(Len(clients))
  /\ sub' = ""
  /\ IF sub = "bbh:return"
     THEN pc' = pc + 1 /\ UNCHANGED <<phase, err>>
     ELSE Raise("SDK error") /\ UNCHANGED pc
  /\ UNCHANGED <<inputs, work, batch, inTry, client, found, sdkLog, net, height>>

(***************************************************************************)
(* findStartHeight: the RPC provider first, then the Insight provider.     *)
(* Each action is the code from one awaited fetch to the next.             *)
(***************************************************************************)
RpcTxidsUsable(resp) ==
  IF version = "legacy" THEN findFirstTransactionBlock_rpcTxidsUsable(resp)
  ELSE findStartHeight_rpcTxidsUsable(resp)
RpcHeightValid(resp) ==
  IF version = "legacy" THEN findFirstTransactionBlock_rpcHeightValid(resp)
  ELSE findStartHeight_rpcHeightValid(resp)
InsightUsable(resp) ==
  IF version = "legacy" THEN findFirstTransactionBlock_insightUsable(resp)
  ELSE findStartHeight_insightUsable(resp)
InsightHeightValid(resp) ==
  IF version = "legacy" THEN findFirstTransactionBlock_insightHeightValid(resp)
  ELSE findStartHeight_insightHeightValid(resp)

\* the response to a request in flight arrives (or the fetch throws)
Answer(req, resp) ==
  /\ req \in inflight
  /\ netLog' = Append(netLog, [req |-> req, resp |-> resp])

\* the resolver returns the height h to the operation
Resolve(h) ==
  /\ height' = (IF version = "legacy" THEN findStartHeight_legacy(h) ELSE h)
  /\ resolver' = "returned"
  /\ sub' = ""
  /\ pc' = pc + 1
  /\ UNCHANGED <<phase, err>>

\* neither provider gave a height: the current resolver throws, the legacy
\* one returns null from findFirstTransactionBlock
Exhausted ==
  IF version = "legacy"
  THEN Resolve(None)
  ELSE /\ err' = <<"Could not find transaction history",
                    "No transactions found for this address">>
       /\ phase' = (IF inTry THEN "finally" ELSE "done")
       /\ resolver' = "thrown"
       /\ sub' = ""
       /\ UNCHANGED <<pc, height>>

\* the entry of findStartHeight up to its first fetch
findStartHeight_begin ==
  /\ Running /\ Instr.k = "fsh"
  /\ IF version = "current" /\ getAddress = Absent
     THEN /\ Raise("Address is required for this operation")
          /\ resolver' = "thrown"
          /\ UNCHANGED <<sub, inflight>>
     ELSE /\ inflight' = FirstRequests
          /\ sub' = "rpcTxids"
          /\ resolver' = "running"
          /\ UNCHANGED <<phase, err>>
  /\ UNCHANGED <<inputs, work, batch, pc, inTry, clients, client, found, sdkLog, netLog, txs, height>>

\* the fallback's first fetch replaces the answered request
Fallback(req) ==
  /\ inflight' = (inflight \ {req}) \cup {Request("insight", "addr", 0)}
  /\ sub' = "insightAddr"
  /\ UNCHANGED <<txs, pc, phase, err, height, resolver>>

\* getaddresstxids is answered
findStartHeight_rpcTxids ==
  /\ sub = "rpcTxids"
  /\ \E resp \in ListResponses :
       LET req == Request("rpc", "txids", 0)
       IN /\ Answer(req, resp)
          /\ IF RpcTxidsUsable(resp)
             THEN /\ txs' = resp.list
                  /\ inflight' = (inflight \ {req})
                                   \cup {Request("rpc", "tx", FirstTxId(resp.list))}
                  /\ sub' = "rpcTx"
                  /\ UNCHANGED <<pc, phase, err, height, resolver>>
             ELSE Fallback(req)
  /\ UNCHANGED <<inputs, work, batch, inTry, clients, client, found, sdkLog>>

\* getrawtransaction is answered
findStartHeight_rpcTx ==
  /\ sub = "rpcTx"
  /\ \E resp \in TxResponses :
       LET req == Request("rpc", "tx", FirstTxId(txs))
       IN /\ Answer(req, resp)
          /\ IF RpcHeightValid(resp)
             THEN Resolve(resp.height) /\ inflight' = inflight \ {req} /\ UNCHANGED txs
             ELSE Fallback(req)
  /\ UNCHANGED <<inputs, work, batch, inTry, clients, client, found, sdkLog>>

\* /addr/{address} is answered
findStartHeight_insightAddr ==
  /\ sub = "insightAddr"
  /\ \E resp \in ListResponses :
       LET req == Request("insight", "addr", 0)
       IN /\ Answer(req, resp)
          /\ IF InsightUsable(resp)
             THEN /\ txs' = OldestFirst(resp.list)
                  /\ inflight' = (inflight \ {req})
                                   \cup {Request("insight", "tx", OldestFirst(resp.list)[1])}
                  /\ sub' = "insightTx"
                  /\ UNCHANGED <<pc, phase, err, height, resolver>>
             ELSE Exhausted /\ inflight' = inflight \ {req} /\ UNCHANGED txs
  /\ UNCHANGED <<inputs, work, batch, inTry, clients, client, found, sdkLog>>

\* /tx/{txid} is answered
findStartHeight_insightTx ==
  /\ sub = "insightTx"
  /\ \E resp \in TxResponses :
       LET req == Request("insight", "tx", txs[1])
       IN /\ Answer(req, resp)
          /\ inflight' = inflight \ {req}
          /\ IF InsightHeightValid(resp) THEN Resolve(resp.height) ELSE Exhausted
  /\ UNCHANGED <<inputs, work, batch, inTry, clients, client, found, sdkLog, txs>>

(***************************************************************************)
(* The end of the body and the finally block.                              *)
(***************************************************************************)
\* the body returns
Finish ==
  /\ phase = "run" /\ sub = "" /\ pc > Len(Program)
  /\ phase' = (IF inTry THEN "finally" ELSE "done")
  /\ UNCHANGED <<inputs, work, batch, pc, sub, inTry, clients, client, found, sdkLog, net, height, err>>

\* catch (rethrow under the operation's message) and finally
\* (await client.disconnect(); a TypeError when client is undefined)
Finally ==
  /\ phase = "finally"
  /\ phase' = "done"
  /\ IF client # 0
     THEN /\ clients' = Closed(client)
          /\ err' = (IF err # <<>> /\ CatchPrefix # "" THEN <<CatchPrefix>> \o err ELSE err)
     ELSE /\ UNCHANGED clients
          /\ err' = (IF FinallyGuarded THEN err ELSE <<"TypeError">>)
  /\ UNCHANGED <<inputs, work, batch, pc, sub, inTry, client, found, sdkLog, net, height>>

Next ==
  \/ Check
  \/ EnterTry
  \/ CreateClient
  \/ SdkCall
  \/ FoundCheck
  \/ DataCheck
  \/ getBestBlockHeight_open
  \/ getBestBlockHeight_call
  \/ getBestBlockHeight_finally
  \/ findStartHeight_begin
  \/ findStartHeight_rpcTxids
  \/ findStartHeight_rpcTx
  \/ findStartHeight_insightAddr
  \/ findStartHeight_insightTx
  \/ Finish
  \/ Finally

Spec == Init /\ [][Next]_vars

(***************************************************************************)
(* The composition of the updated schema in updateContract, on its own:    *)
(* from the schema obtained from the existing contract to the call of      *)
(* contracts.update.  Objects live in the heap under an address (a path);  *)
(* a node holds its scalars and the addresses of the objects it refers to. *)
(* A property definition and an index are leaves held by value.            *)
(***************************************************************************)
NoProp == PropDef("", "undefined", 0)
NoIndex == Index("", "absent", <<>>, "undefined")
Ref(key, addr) == [key |-> key, ref |-> addr]
Node(kind, type, additionalProperties, refs, prop, index) ==
  [kind |-> kind, type |-> type, additionalProperties |-> additionalProperties,
   refs |-> refs, prop |-> prop, index |-> index]
ArrayKeys == <<"0", "1", "2", "3", "4", "5">>

\* the address a node refers to under a key: <<>> when it has no such key
RefOf(node, key) ==
  IF \E i \in DOMAIN node.refs : node.refs[i].key = key
  THEN node.refs[CHOOSE i \in DOMAIN node.refs : node.refs[i].key = key].ref
  ELSE <<>>

\* an object of named property definitions, allocated at base
LoadProperties(entries, base) ==
  (base :> Node("properties", "", "",
                [i \in DOMAIN entries |-> Ref(entries[i].name, base \o <<entries[i].name>>)],
                NoProp, NoIndex))
  @@ [a \in {base \o <<entries[i].name>> : i \in DOMAIN entries} |->
        Node("property", "", "", <<>>,
             entries[CHOOSE i \in DOMAIN entries : base \o <<entries[i].name>> = a].def,
             NoIndex)]

\* an array of indices, allocated at base
LoadIndices(items, base) ==
  (base :> Node("indices", "", "",
                [i \in DOMAIN items |-> Ref(ArrayKeys[i], base \o <<ArrayKeys[i]>>)],
                NoProp, NoIndex))
  @@ [a \in {base \o <<ArrayKeys[i]>> : i \in DOMAIN items} |->
        Node("index", "", "", <<>>, NoProp,
             items[CHOOSE i \in DOMAIN items : base \o <<ArrayKeys[i]>> = a])]

\* JSON.parse of a schema's text: its objects are allocated at base
JSONparse(schema, base) ==
  (base :> Node("schema", schema.type, schema.additionalProperties,
                <<Ref("properties", base \o <<"properties">>)>>
                  \o (IF schema.hasIndices
                      THEN <<Ref("indices", base \o <<"indices">>)>> ELSE <<>>),
                NoProp, NoIndex))
  @@ LoadProperties(schema.properties, base \o <<"properties">>)
  @@ (IF schema.hasIndices THEN LoadIndices(schema.indices, base \o <<"indices">>)
      ELSE <<>>)

\* the property definitions an object of the heap holds, in key order
PropertiesAt(h, addr) ==
  [i \in DOMAIN h[addr].refs |-> Entry(h[addr].refs[i].key, h[h[addr].refs[i].ref].prop)]

\* the indices an array of the heap holds, in order
IndicesAt(h, addr) ==
  [i \in DOMAIN h[addr].refs |-> h[h[addr].refs[i].ref].index]

\* JSON.stringify of the schema at an address: its value, with no addresses
JSONstringify(h, addr) ==
  LET indices == RefOf(h[addr], "indices")
  IN [type |-> h[addr].type, propsKind |-> "object",
      properties |-> PropertiesAt(h, RefOf(h[addr], "properties")),
      additionalProperties |-> h[addr].additionalProperties,
      hasIndices |-> indices # <<>>,
      indices |-> IF indices = <<>> THEN <<>> ELSE IndicesAt(h, indices)]

\* the addresses of the objects a schema is made of
Reachable(h, addr) ==
  LET below(a) == IF a = <<>> THEN {}
                  ELSE {a} \cup {h[a].refs[i].ref : i \in DOMAIN h[a].refs}
  IN {addr} \cup below(RefOf(h[addr], "properties")) \cup below(RefOf(h[addr], "indices"))

\* a variant that copies the schema object only: { ...documentSchema }
DeepCopy_shallow(h, addr) ==
  [heap |-> (<<"copy">> :> h[addr]) @@ h, root |-> <<"copy">>]

\* JSON.parse(JSON.stringify(documentSchema)): the heap with the copy, and
\* the copy's address
DeepCopy(h, addr) ==
  [heap |-> JSONparse(JSONstringify(h, addr), <<"copy">>) @@ h, root |-> <<"copy">>]

(***************************************************************************)
(* Properties of the start-height resolver.                                *)
(***************************************************************************)
\* every provider request issued so far, answered or not
Requested == {netLog[i].req : i \in DOMAIN netLog} \cup inflight
\* the answered requests of one provider and kind
Answered(provider, kind) ==
  {i \in DOMAIN netLog : netLog[i].req.provider = provider /\ netLog[i].req.kind = kind}
\* the resolver has handed control back to the operation
Resolved == resolver \in {"returned", "thrown"}
\* the address the resolver is given
AddressGiven == IF version = "legacy" THEN args.address # Absent ELSE getAddress # Absent
\* a response reports a confirmed height (a positive number)
ReportsHeight(e) == e.resp.status = "ok" /\ e.resp.height # None /\ e.resp.height[1] > 0
\* a response reports no height at all: it failed, or the height is missing or zero
ReportsNothing(e) == e.resp.status # "ok" \/ e.resp.height = None \/ e.resp.height[1] = 0
\* a response lists at least one transaction
ListsTransactions(e) == e.resp.status = "ok" /\ e.resp.list # <<>>

\* C1: for a present address findStartHeight never throws, and when no
\* transaction record of either provider reports a height (the request threw,
\* the status was not OK, the list was empty, the height was missing or zero)
\* it returns the sentinel height 1.
C1_NeverThrowsReturnsSentinel ==
  (Resolved /\ AddressGiven) =>
     /\ resolver = "returned"
     /\ (\A i \in DOMAIN netLog : netLog[i].req.kind = "tx" => ReportsNothing(netLog[i]))
          => height = Some(1)

\* C2: when the RPC provider lists transactions and the record of the first
\* listed id reports a height H > 0, findStartHeight returns H and no request
\* is ever made to the Insight provider.
C2_PrimaryShortCircuits ==
  \A i \in Answered("rpc", "txids") : \A j \in Answered("rpc", "tx") :
    (/\ ListsTransactions(netLog[i])
     /\ netLog[j].req.txid = netLog[i].resp.list[1]
     /\ ReportsHeight(netLog[j]))
    => /\ resolver = "returned"
       /\ height = netLog[j].resp.height
       /\ \A r \in Requested : r.provider # "insight"

\* C2's case: the operation has ended after the RPC provider reported a
\* height above the sentinel for the first of two listed transactions.
C2_Witness ==
  /\ phase = "done"
  /\ \E i \in Answered("rpc", "txids") : \E j \in Answered("rpc", "tx") :
       /\ Len(netLog[i].resp.list) = 2
       /\ netLog[j].req.txid = netLog[i].resp.list[1]
       /\ ReportsHeight(netLog[j]) /\ netLog[j].resp.height[1] > 1
       /\ height = netLog[j].resp.height

\* C3: when the Insight provider lists transactions (newest first), the
\* resolver works on the reversed list, asks the Insight provider for one
\* transaction only, the last one listed, and returns the height H2 > 0 that
\* record reports.
C3_FallbackUsesOldest ==
  \A i \in Answered("insight", "addr") :
    ListsTransactions(netLog[i]) =>
      LET listed == netLog[i].resp.list
          n == Len(listed)
          lookups == {r \in Requested : r.provider = "insight" /\ r.kind = "tx"}
      IN /\ Len(txs) = n
         /\ \A k \in 1..n : txs[k] = listed[n + 1 - k]
         /\ lookups = {Request("insight", "tx", listed[n])}
         /\ Cardinality(Answered("insight", "tx")) <= 1
         /\ \A j \in Answered("insight", "tx") :
              ReportsHeight(netLog[j]) =>
                resolver = "returned" /\ height = netLog[j].resp.height

\* C3's case: the primary path failed, the Insight provider listed two
\* transactions and the record of the older one reported a height above the
\* sentinel, which the operation was given.
C3_Witness ==
  /\ phase = "done"
  /\ Answered("rpc", "txids") # {}
  /\ \E i \in Answered("insight", "addr") : \E j \in Answered("insight", "tx") :
       /\ netLog[i].resp.list = <<2, 1>>
       /\ netLog[j].req.txid = 1
       /\ ReportsHeight(netLog[j]) /\ netLog[j].resp.height[1] > 1
       /\ height = netLog[j].resp.height

\* C4: every height findStartHeight returns to createIdentity or
\* topupIdentity is a number that is at least 1.
C4_HeightAtLeastOne ==
  resolver = "returned" => height # None /\ height[1] >= 1

\* the primary path ended in one of the ways that call for the fallback
PrimaryGaveUp ==
  \/ \E i \in Answered("rpc", "txids") : ~ListsTransactions(netLog[i])
  \/ \E j \in Answered("rpc", "tx") : ReportsNothing(netLog[j])

\* C5: the Insight provider is asked only once every RPC request has been
\* answered and none reported a confirmed height; it is asked whenever the
\* RPC request threw, came back non-OK, listed nothing or its transaction
\* record had a missing or zero height; and requests to the two providers
\* are never in flight together.
C5_FallbackAfterPrimary ==
  /\ (\E r \in Requested : r.provider = "insight") =>
        /\ \A r \in inflight : r.provider # "rpc"
        /\ Answered("rpc", "txids") # {}
        /\ \A j \in Answered("rpc", "tx") : ~ReportsHeight(netLog[j])
        /\ \A i, j \in DOMAIN netLog :
             (netLog[i].req.provider = "rpc" /\ netLog[j].req.provider = "insight") => i < j
  /\ PrimaryGaveUp => Request("insight", "addr", 0) \in Requested
  /\ Cardinality(inflight) <= 1

\* C5's case: the RPC transaction record had a zero height and the Insight
\* request is in flight.
C5_Witness ==
  /\ \E j \in Answered("rpc", "tx") :
       netLog[j].resp.status = "ok" /\ netLog[j].resp.height = Some(0)
  /\ inflight = {Request("insight", "addr", 0)}

(***************************************************************************)
(* Properties of the library operations.                                   *)
(***************************************************************************)
\* C6: when an operation has returned or thrown, every SDK client it created
\* (its own and those of the helpers it called) has been disconnected.
C6_EveryClientDisconnected ==
  phase = "done" => \A i \in DOMAIN clients : ~clients[i].open

\* the input fails a validation the operation performs
InvalidInput ==
  CASE op = "registerName" ->
         args.identityName # <<>> /\ ~validateIdentityName(args.identityName)
    [] op = "registerContract" ->
         \/ validateContractDefinition(args.contractDef) # <<>>
         \/ args.indices.given /\ IndicesRejected(args.indices)
    [] op = "updateContract" ->
         \/ args.newProperties.given
              /\ NewPropertiesRejected(ExistingSchema, args.newProperties)
         \/ args.indices.given /\ IndicesRejected(args.indices)
    [] OTHER -> FALSE

\* nothing outside the process has been touched: no client created, no SDK
\* method called, no provider request made
NothingExternal ==
  clients = <<>> /\ sdkLog = <<>> /\ netLog = <<>> /\ inflight = {}

\* C7: registerName, registerContract and updateContract validate the name,
\* the contract definition, the new properties and the indices before any
\* client is created and before any external call is made.
C7_ValidationBeforeExternalCalls ==
  (version = "current" /\ InvalidInput) => NothingExternal

\* an identifier the operation cannot work without is absent from the options
\* and from the environment
RequiredMissing ==
  CASE op \in {"retrieveIdentity", "registerContract", "listIdentityPublicKeys",
               "getPrivateKeyFromPublicKey"} -> getIdentityId = Absent
    [] op = "createIdentity" -> getAddress = Absent
    [] op = "topupIdentity" ->
         getIdentityId = Absent \/ getAddress = Absent \/ args.topupAmount = <<>>
    [] op = "updateContract" -> getIdentityId = Absent \/ getContractId = Absent
    [] op \in {"retrieveContract", "retrieveContractHistory"} -> getContractId = Absent
    [] op = "submitDocument" ->
         \/ getIdentityId = Absent \/ getContractId = Absent
         \/ args.action # "create" /\ getDocumentId = Absent
    [] op = "deleteDocument" -> getIdentityId = Absent \/ getDocumentId = Absent
    [] OTHER -> FALSE

\* the messages of the missing-parameter errors
MissingParameterMessages ==
  {"Address is required for creating an identity", "Identity ID is required.",
   "Address is required.", "Topup amount is required.", "Contract ID is required.",
   "Document ID is required.", "Identity ID is required",
   "Identity ID and Public Key ID are required"}

\* C8: an operation invoked without a required identifier makes no network
\* call and creates no client, and ends with a missing-parameter error.
C8_MissingParameterBeforeNetwork ==
  (version = "current" /\ RequiredMissing) =>
     /\ NothingExternal
     /\ phase = "done" => \E k \in DOMAIN err : err[k] \in MissingParameterMessages

(***************************************************************************)
(* The validators on their own: one call of validateIdentityName, or of    *)
(* validateContractDefinition, on an input drawn from a bounded set.       *)
(***************************************************************************)
MaxShortName == 3
MaxNameLen == 65
MaxDocTypes == 2
MaxProps == 2

\* the state before a validator is called
Fresh ==
  /\ env = NoEnv /\ pc = 1 /\ sub = "" /\ phase = "run" /\ inTry = FALSE
  /\ clients = <<>> /\ client = 0 /\ found = TRUE /\ sdkLog = <<>>
  /\ inflight = {} /\ netLog = <<>> /\ txs = <<>> /\ height = None
  /\ resolver = "idle" /\ err = <<>> /\ batch = <<>>
  /\ command = Absent /\ options = NoArgs /\ called = <<>> /\ existingDocument = <<>>

\* no schema is at work and no validator has returned
NoWork ==
  heap = <<>> /\ documentSchema = <<>> /\ updatedSchema = <<>> /\ returned = <<>>

\* names: every string of up to MaxShortName characters, and strings of
\* about the longest accepted length made of a first, a repeated interior
\* and a last character
NameAlphabet == {"a", "Z", "7", "-", " ", "_"}
ShortNames == UNION {[1..n -> NameAlphabet] : n \in 0..MaxShortName}
LongNames ==
  {[i \in 1..n |-> IF i = 1 THEN f ELSE IF i = n THEN l ELSE m] :
     f \in NameAlphabet, m \in NameAlphabet, l \in NameAlphabet,
     n \in (MaxNameLen - 5)..MaxNameLen}
Names == ShortNames \cup LongNames

InitName ==
  /\ version \in {"legacy", "current"}
  /\ op = "validateIdentityName"
  /\ args \in {[NoArgs EXCEPT !.identityName = n] : n \in Names}
  /\ Fresh /\ NoWork

\* one call of validateIdentityName: it returns true or throws
ValidateName ==
  /\ op = "validateIdentityName" /\ phase = "run"
  /\ phase' = "done"
  /\ err' = IF validateIdentityName(args.identityName) THEN <<>>
            ELSE <<"Invalid identity name.">>
  /\ UNCHANGED <<inputs, work, batch, net, pc, sub, inTry, clients, client, found, sdkLog, height>>

NextName == ValidateName
SpecName == InitName /\ [][NextName]_vars

\* contract definitions: up to MaxDocTypes document types, one of them with
\* any schema of up to MaxProps properties, the others alike
DocTypeNames == <<"note", "post", "tag", "vote">>
PropNames == <<"message", "author", "title", "body">>
PropDefs ==
  {PropDef(t, pt, 0) : t \in {"", "string"}, pt \in {"undefined", "number", "string"}}
PropLists ==
  UNION {{[i \in 1..n |-> Entry(PropNames[i], d[i])] : d \in [1..n -> PropDefs]} :
           n \in 0..MaxProps}
Schemas ==
  {[type |-> t, propsKind |-> k, properties |-> ps, additionalProperties |-> a] :
     t \in {"object", "array"}, k \in {"object"}, ps \in PropLists,
     a \in {"undefined", "true", "false", "string"}}
  \cup
  {[type |-> t, propsKind |-> k, properties |-> <<>>, additionalProperties |-> a] :
     t \in {"object", "array"}, k \in {"absent", "string"},
     a \in {"undefined", "true", "false", "string"}}
OtherSchemas ==
  {ValidSchema, [ValidSchema EXCEPT !.additionalProperties = "undefined"],
   [ValidSchema EXCEPT !.properties = <<>>]}
Definitions ==
  {<<>>} \cup
  UNION {{[i \in 1..n |-> Entry(DocTypeNames[i], IF i = k THEN sch ELSE o)] :
            k \in 1..n, sch \in Schemas, o \in OtherSchemas} : n \in 1..MaxDocTypes}
ContractDefs ==
  {NotGiven, Json("malformed", <<>>), Json("other", <<>>)}
  \cup {Json("object", d) : d \in Definitions}

InitContract ==
  /\ version = "current"
  /\ op = "validateContractDefinition"
  /\ args \in {[NoArgs EXCEPT !.contractDef = d] : d \in ContractDefs}
  /\ Fresh /\ NoWork

\* one call of validateContractDefinition: it returns true or throws
ValidateContract ==
  /\ op = "validateContractDefinition" /\ phase = "run"
  /\ phase' = "done"
  /\ err' = validateContractDefinition(args.contractDef)
  /\ UNCHANGED <<inputs, work, batch, net, pc, sub, inTry, clients, client, found, sdkLog, height>>

NextContract == ValidateContract
SpecContract == InitContract /\ [][NextContract]_vars

(***************************************************************************)
(* Properties of the validators.                                           *)
(***************************************************************************)
LetterOrDigit(c) == c \in Letters \/ IsDigit(c)

\* C9: validateIdentityName accepts a name exactly when it is 2 to 63
\* characters long, its first and last characters are letters or digits and
\* every character in between is a letter, a digit or a hyphen.
C9_NameAcceptedIffWellFormed ==
  (op = "validateIdentityName" /\ phase = "done") =>
    LET name == args.identityName
        n == Len(name)
    IN (err = <<>>) <=>
         /\ n >= 2 /\ n <= 63
         /\ LetterOrDigit(name[1]) /\ LetterOrDigit(name[n])
         /\ \A i \in 2..(n - 1) : LetterOrDigit(name[i]) \/ name[i] = "-"

\* C9's case: a name of the longest accepted length, with hyphens inside,
\* has been accepted.
C9_Witness ==
  /\ op = "validateIdentityName" /\ phase = "done" /\ err = <<>>
  /\ Len(args.identityName) = 63
  /\ args.identityName[2] = "-"

\* C10: every definition validateContractDefinition accepts has at least one
\* document type, and each of its schemas has type "object", a non-empty
\* mapping of properties that each have a type and a numeric position, and a
\* boolean additionalProperties.
C10_AcceptedDefinitionsWellFormed ==
  (op = "validateContractDefinition" /\ phase = "done" /\ err = <<>>) =>
    LET def == args.contractDef
    IN /\ def.given /\ def.json = "object" /\ def.value # <<>>
       /\ \A i \in DOMAIN def.value :
            LET schema == def.value[i].def
            IN /\ schema.type = "object"
               /\ schema.propsKind = "object"
               /\ schema.properties # <<>>
               /\ \A j \in DOMAIN schema.properties :
                    /\ schema.properties[j].def.type # ""
                    /\ schema.properties[j].def.position.t = "number"
               /\ schema.additionalProperties \in {"true", "false"}

\* a schema without a boolean additionalProperties
LacksAdditionalProperties(schema) == schema.additionalProperties \notin {"true", "false"}

\* a schema that breaks one of the rules validateContractDefinition states
BreaksRule(schema) ==
  \/ schema.type # "object"
  \/ schema.propsKind # "object"
  \/ \E j \in DOMAIN schema.properties :
       \/ schema.properties[j].def.type = ""
       \/ schema.properties[j].def.position.t # "number"
  \/ LacksAdditionalProperties(schema)

\* validateContractDefinition has been called on a definition with document types
ValidatedDefinition ==
  /\ op = "validateContractDefinition" /\ phase = "done"
  /\ args.contractDef.given /\ args.contractDef.json = "object"

\* C11 as stated: a definition in which a document type lacks a boolean
\* additionalProperties fails with an error that names that document type,
\* whatever the other document types contain.
C11_NamesEveryTypeLackingAdditionalProperties ==
  ValidatedDefinition =>
    \A i \in DOMAIN args.contractDef.value :
      LacksAdditionalProperties(args.contractDef.value[i].def) =>
        err # <<>> /\ err[2] = args.contractDef.value[i].name

\* C11 amended: such a definition fails, and when no document type before
\* the one lacking additionalProperties breaks a rule and its own type,
\* properties and property definitions pass, the error is the
\* additionalProperties error naming that document type.
C11_FailsNamingFirstBrokenType ==
  ValidatedDefinition =>
    LET def == args.contractDef.value
    IN \A i \in DOMAIN def :
         LacksAdditionalProperties(def[i].def) =>
           /\ err # <<>>
           /\ (/\ \A j \in 1..(i - 1) : ~BreaksRule(def[j].def)
               /\ def[i].def.type = "object" /\ def[i].def.propsKind = "object"
               /\ \A j \in DOMAIN def[i].def.properties :
                    /\ def[i].def.properties[j].def.type # ""
                    /\ def[i].def.properties[j].def.position.t = "number")
                => err = <<"additionalProperties", def[i].name, "">>

\* C11's case: the second of two document types lacks additionalProperties,
\* the first is valid, and the error names the second.
C11_Witness ==
  /\ ValidatedDefinition
  /\ Len(args.contractDef.value) = 2
  /\ ~BreaksRule(args.contractDef.value[1].def)
  /\ args.contractDef.value[2].def.additionalProperties = "undefined"
  /\ err = <<"additionalProperties", args.contractDef.value[2].name, "">>

(***************************************************************************)
(* validateIndices on its own: one call on a parsed value, a single index  *)
(* object or a sequence of up to MaxIndices index objects.                 *)
(***************************************************************************)
MaxIndices == 2

IndexObjects ==
  {Index(n, k, ps, u) :
     n \in {"", "byMessage", "byAuthor"}, k \in {"array"},
     ps \in {<<>>, <<"message">>}, u \in {"true", "undefined", "string"}}
  \cup
  {Index(n, k, <<>>, u) :
     n \in {"", "byMessage", "byAuthor"}, k \in {"absent", "string"},
     u \in {"true", "undefined", "string"}}
IndexInputs ==
  {Json("object", [single |-> TRUE, items |-> <<x>>]) : x \in IndexObjects}
  \cup
  {Json("object", [single |-> FALSE, items |-> xs]) :
     xs \in UNION {[1..n -> IndexObjects] : n \in 0..MaxIndices}}

InitIndices ==
  /\ version = "current"
  /\ op = "validateIndices"
  /\ args \in {[NoArgs EXCEPT !.indices = i] : i \in IndexInputs}
  /\ Fresh /\ NoWork

\* one call of validateIndices: it returns the sequence or throws
ValidateIndices ==
  /\ op = "validateIndices" /\ phase = "run"
  /\ phase' = "done"
  /\ LET r == validateIndices(args.indices)
     IN /\ err' = r.error
        /\ returned' = (IF r.error = <<>> THEN r.indices ELSE <<>>)
  /\ UNCHANGED <<inputs, net, batch, cli, heap, documentSchema, updatedSchema,
                 pc, sub, inTry, clients, client, found, sdkLog, height>>

NextIndices == ValidateIndices
SpecIndices == InitIndices /\ [][NextIndices]_vars

\* validateIndices has been called
ValidatedIndices == op = "validateIndices" /\ phase = "done"

\* C12: validateIndices on a single index object ends as validateIndices on
\* the one-element sequence holding that object does (the same sequence
\* returned or the same failure), and a sequence that is returned holds the
\* elements given, in the order given.
C12_SingleIsOneElementSequence ==
  ValidatedIndices =>
    LET given == args.indices.value
        asSequence == validateIndices([args.indices EXCEPT !.value.single = FALSE])
    IN /\ given.single =>
            /\ err = asSequence.error
            /\ err = <<>> => returned = asSequence.indices
       /\ err = <<>> => returned = given.items

\* C12's case: a single valid index object was given and came back as a
\* one-element sequence.
C12_Witness ==
  /\ ValidatedIndices /\ args.indices.value.single /\ err = <<>>
  /\ returned = <<Index("byMessage", "array", <<"message">>, "true")>>

\* C13: every index validateIndices returns has a non-empty name, a
\* non-empty properties sequence and a boolean unique, and an input with an
\* element that violates one of these fails.
C13_ReturnedIndicesWellFormed ==
  ValidatedIndices =>
    LET wellFormed(x) == /\ x.name # ""
                         /\ x.propsKind = "array" /\ x.properties # <<>>
                         /\ x.unique \in {"true", "false"}
        items == args.indices.value.items
    IN /\ \A i \in DOMAIN returned : wellFormed(returned[i])
       /\ (\E i \in DOMAIN items : ~wellFormed(items[i])) => err # <<>>

(***************************************************************************)
(* updateContract from the copy of the existing schema to contracts.update *)
(***************************************************************************)
\* a variant in which a property that exists keeps its definition
MergeByKey_existingWins(old, new) ==
  old \o SelectSeq(new, LAMBDA r : \A i \in DOMAIN old : old[i].key # r.key)

\* { ...old, ...new }: the keys of old in their order, each with the value
\* new gives it if any, then the keys only new has, in their order
MergeByKey(old, new) ==
  [i \in DOMAIN old |->
     IF \E j \in DOMAIN new : new[j].key = old[i].key
     THEN new[CHOOSE j \in DOMAIN new : new[j].key = old[i].key]
     ELSE old[i]]
  \o SelectSeq(new, LAMBDA r : \A i \in DOMAIN old : old[i].key # r.key)

\* a variant that replaces the existing indices by the new ones
Spread_replace(old, new) ==
  [i \in DOMAIN new |-> Ref(ArrayKeys[i], new[i].ref)]

\* [...old, ...new]: the elements of old, then those of new
Spread(old, new) ==
  [i \in 1..(Len(old) + Len(new)) |-> Ref(ArrayKeys[i], (old \o new)[i].ref)]

\* node.key = addr
SetRef(node, key, addr) ==
  IF RefOf(node, key) = <<>>
  THEN [node EXCEPT !.refs = Append(@, Ref(key, addr))]
  ELSE [node EXCEPT !.refs = [i \in DOMAIN @ |->
                                 IF @[i].key = key THEN Ref(key, addr) ELSE @[i]]]

\* the schemas the existing contract may hold for the document type
Message == Entry("message", PropDef("string", "number", 0))
Author == Entry("author", PropDef("string", "number", 1))
ByMessage == Index("byMessage", "array", <<"message">>, "true")
ByAuthor == Index("byAuthor", "array", <<"author">>, "false")
ByTitle == Index("byTitle", "array", <<"title">>, "true")
ExistingSchemas ==
  {[type |-> "object", propsKind |-> "object", properties |-> ps,
    additionalProperties |-> "false", hasIndices |-> i.has, indices |-> i.items] :
     ps \in {<<Message>>, <<Message, Author>>},
     i \in {[has |-> FALSE, items |-> <<>>], [has |-> TRUE, items |-> <<>>],
            [has |-> TRUE, items |-> <<ByMessage>>]}}

\* the payloads of --newProperties: definitions for some of three names
PayloadDefs ==
  {PropDef("string", "number", p) : p \in 0..2}
  \cup {PropDef("string", "undefined", 0), PropDef("", "number", 2)}
PayloadNames == <<"message", "author", "title">>
PayloadObjects ==
  {<<>>}
  \cup {<<Entry(PayloadNames[i], d)>> : i \in 1..3, d \in PayloadDefs}
  \cup UNION {{<<Entry(PayloadNames[ij[1]], d), Entry(PayloadNames[ij[2]], e)>> :
                 d \in PayloadDefs, e \in PayloadDefs} :
                 ij \in {<<1, 2>>, <<1, 3>>, <<2, 3>>, <<2, 1>>}}
  \cup {<<Entry("message", d), Entry("author", e), Entry("title", f)>> :
          d \in PayloadDefs, e \in PayloadDefs, f \in PayloadDefs}
NewPropertiesPayloads ==
  {NotGiven, Json("malformed", <<>>)} \cup {Json("object", o) : o \in PayloadObjects}

\* the payloads of --indices
NewIndicesPayloads ==
  {NotGiven, Json("malformed", [single |-> FALSE, items |-> <<>>]),
   Json("object", [single |-> TRUE, items |-> <<ByAuthor>>]),
   Json("object", [single |-> FALSE, items |-> <<ByAuthor, ByTitle>>]),
   Json("object", [single |-> FALSE, items |-> <<ByMessage>>]),
   Json("object", [single |-> FALSE,
                   items |-> <<ByAuthor, Index("byTitle", "array", <<"title">>, "undefined")>>])}

InitUpdate ==
  /\ version = "current"
  /\ op = "updateContract"
  /\ args \in {[NoArgs EXCEPT !.newProperties = p, !.indices = i] :
                 p \in NewPropertiesPayloads, i \in NewIndicesPayloads}
  /\ Fresh
  /\ heap \in {JSONparse(schema, <<"existing">>) : schema \in ExistingSchemas}
  /\ documentSchema = <<"existing">>
  /\ updatedSchema = <<>>
  /\ returned = <<>>

Composing == op = "updateContract" /\ phase = "run" /\ documentSchema # <<>>

\* the error leaves through updateContract's catch block
Fail(msg) ==
  /\ err' = <<"Failed to update contract", msg>>
  /\ phase' = "done"
  /\ UNCHANGED pc

\* const updatedSchema = JSON.parse(JSON.stringify(documentSchema))
UpdateCopy ==
  /\ Composing /\ pc = 1
  /\ LET copy == DeepCopy(heap, documentSchema)
     IN heap' = copy.heap /\ updatedSchema' = copy.root
  /\ pc' = 2
  /\ UNCHANGED <<inputs, net, batch, cli, documentSchema, returned, sub, phase, inTry,
                 clients, client, found, sdkLog, height, err>>

\* if (args.newProperties) { parse, check each new property, merge }
UpdateNewProperties ==
  /\ Composing /\ pc = 2
  /\ IF ~args.newProperties.given
     THEN pc' = 3 /\ UNCHANGED <<heap, phase, err>>
     ELSE IF args.newProperties.json # "object"
     THEN Fail("SyntaxError") /\ UNCHANGED heap
     ELSE LET schema == JSONstringify(heap, updatedSchema)
              error == FirstNewPropertyError(ExistingPositions(schema),
                                             args.newProperties.value)
              parsed == LoadProperties(args.newProperties.value, <<"newProperties">>)
              existing == heap[RefOf(heap[updatedSchema], "properties")]
              merged == Node("properties", "", "",
                             MergeByKey(existing.refs, parsed[<<"newProperties">>].refs),
                             NoProp, NoIndex)
          IN IF error # <<>>
             THEN Fail(error[1]) /\ UNCHANGED heap
             ELSE /\ heap' = (updatedSchema :> SetRef(heap[updatedSchema], "properties",
                                                       <<"merged">>))
                              @@ (<<"merged">> :> merged) @@ parsed @@ heap
                  /\ pc' = 3
                  /\ UNCHANGED <<phase, err>>
  /\ UNCHANGED <<inputs, net, batch, cli, documentSchema, updatedSchema, returned, sub,
                 inTry, clients, client, found, sdkLog, height>>

\* if (args.indices) { parse, validateIndices, append }
UpdateIndices ==
  /\ Composing /\ pc = 3
  /\ IF ~args.indices.given
     THEN pc' = 4 /\ UNCHANGED <<heap, phase, err>>
     ELSE IF IndicesRejected(args.indices)
     THEN Fail("Invalid indices format") /\ UNCHANGED heap
     ELSE LET parsed == LoadIndices(validateIndices(args.indices).indices, <<"newIndices">>)
              held == RefOf(heap[updatedSchema], "indices")
              existing == IF held = <<>> THEN <<>> ELSE heap[held].refs
              appended == Node("indices", "", "",
                               Spread(existing, parsed[<<"newIndices">>].refs),
                               NoProp, NoIndex)
          IN /\ heap' = (updatedSchema :> SetRef(heap[updatedSchema], "indices",
                                                  <<"appended">>))
                         @@ (<<"appended">> :> appended) @@ parsed @@ heap
             /\ pc' = 4
             /\ UNCHANGED <<phase, err>>
  /\ UNCHANGED <<inputs, net, batch, cli, documentSchema, updatedSchema, returned, sub,
                 inTry, clients, client, found, sdkLog, height>>

\* existingContract.setDocumentSchema(...); await contracts.update(...)
UpdateSubmit ==
  /\ Composing /\ pc = 4
  /\ sdkLog' = Append(sdkLog, "contracts.update")
  /\ \E outcome \in {"ok", "throw"} :
       IF outcome = "throw"
       THEN Fail("SDK error") /\ UNCHANGED returned
       ELSE /\ returned' = <<updatedSchema>>
            /\ phase' = "done" /\ pc' = 5
            /\ UNCHANGED err
  /\ UNCHANGED <<inputs, net, batch, cli, heap, documentSchema, updatedSchema, sub,
                 inTry, clients, client, found, height>>

NextUpdate == UpdateCopy \/ UpdateNewProperties \/ UpdateIndices \/ UpdateSubmit
SpecUpdate == InitUpdate /\ [][NextUpdate]_vars

(***************************************************************************)
(* Properties of the composition of the updated schema.                    *)
(***************************************************************************)
\* the schema obtained from the existing contract, and the one composed
ExistingValue == JSONstringify(heap, documentSchema)
UpdatedValue == JSONstringify(heap, updatedSchema)
\* updateContract is composing and has made its copy
Copied == op = "updateContract" /\ documentSchema # <<>> /\ updatedSchema # <<>>

\* C14: with neither new properties nor new indices, the composed schema is
\* deep-equal to the existing one and shares no object with it, so that a
\* change made through the one cannot show through the other.
C14_NoOpIsFreshDeepCopy ==
  (Copied /\ ~args.newProperties.given /\ ~args.indices.given) =>
     /\ UpdatedValue = ExistingValue
     /\ Reachable(heap, updatedSchema) \cap Reachable(heap, documentSchema) = {}

\* C14's case: an update with no new properties and no new indices of a
\* schema with two properties and an index has been submitted.
C14_Witness ==
  /\ Copied /\ ~args.newProperties.given /\ ~args.indices.given
  /\ phase = "done" /\ err = <<>> /\ sdkLog = <<"contracts.update">>
  /\ Len(ExistingValue.properties) = 2 /\ ExistingValue.indices # <<>>

\* the payload has a property at a position the existing schema uses
PositionTaken(e) ==
  /\ e.def.position.t = "number"
  /\ \E i \in DOMAIN ExistingValue.properties :
       ExistingValue.properties[i].def.position = e.def.position
ConflictingPayload ==
  /\ op = "updateContract" /\ documentSchema # <<>>
  /\ args.newProperties.given /\ args.newProperties.json = "object"
  /\ \E j \in DOMAIN args.newProperties.value : PositionTaken(args.newProperties.value[j])

\* C15 as stated: a payload with a property at a position the existing
\* schema uses is rejected with the position-conflict error, whatever the
\* property's name, and the contract is not updated.
C15_ConflictErrorAlways ==
  ConflictingPayload =>
     /\ sdkLog = <<>>
     /\ phase = "done" => err = <<"Failed to update contract", "positionConflict">>

\* C15 amended: such a payload is always rejected and the contract is never
\* updated; the error is the position-conflict error when every property
\* of the payload before the first one at a taken position has a numeric
\* position and a type.
C15_ConflictRejected ==
  ConflictingPayload =>
     LET payload == args.newProperties.value
         first == CHOOSE j \in DOMAIN payload :
                    /\ PositionTaken(payload[j])
                    /\ \A k \in 1..(j - 1) : ~PositionTaken(payload[k])
     IN /\ sdkLog = <<>> /\ returned = <<>>
        /\ phase = "done" =>
             /\ err # <<>>
             /\ (\A k \in 1..(first - 1) :
                   payload[k].def.position.t = "number" /\ payload[k].def.type # "")
                  => err = <<"Failed to update contract", "positionConflict">>

\* C15's case: the payload redefines the existing property message at the
\* position it already has, and is rejected.
C15_Witness ==
  /\ ConflictingPayload /\ phase = "done"
  /\ args.newProperties.value = <<Entry("message", PropDef("string", "number", 0))>>
  /\ err = <<"Failed to update contract", "positionConflict">>

\* the new properties have passed validation and have been merged
Merged ==
  /\ Copied /\ pc >= 3
  /\ args.newProperties.given /\ args.newProperties.json = "object"

\* C16: after the merge the composed schema has every new property with its
\* new definition, every existing property the payload does not name with
\* its existing definition, each name once and no other name.
C16_MergeByKeyNewWins ==
  Merged =>
    LET new == args.newProperties.value
        old == ExistingValue.properties
        now == UpdatedValue.properties
        named(seq, n) == {i \in DOMAIN seq : seq[i].name = n}
    IN /\ \A j \in DOMAIN new :
            \E i \in DOMAIN now : now[i] = new[j] /\ named(now, new[j].name) = {i}
       /\ \A k \in DOMAIN old :
            named(new, old[k].name) = {} =>
              \E i \in DOMAIN now : now[i] = old[k] /\ named(now, old[k].name) = {i}
       /\ \A i \in DOMAIN now :
            named(new, now[i].name) # {} \/ named(old, now[i].name) # {}

\* C16's case: the payload redefines the existing property message at a free
\* position and adds title; author is kept.
C16_Witness ==
  /\ Merged /\ phase = "done" /\ err = <<>>
  /\ ExistingValue.properties = <<Message, Author>>
  /\ UpdatedValue.properties =
       <<Entry("message", PropDef("string", "number", 2)), Author,
         Entry("title", PropDef("string", "number", 2))>>

\* the new indices have passed validation and have been appended
Appended == Copied /\ pc >= 4 /\ args.indices.given

\* C17: the indices of the composed schema are the existing indices (none
\* when the schema has no indices) followed by the new ones, in order, with
\* nothing removed, replaced or de-duplicated.
C17_IndicesAppended ==
  Appended =>
    /\ UpdatedValue.hasIndices
    /\ UpdatedValue.indices = ExistingValue.indices \o args.indices.value.items

\* C17's case: the new index has the name of the existing one, and both are
\* in the result.
C17_Witness ==
  /\ Appended /\ phase = "done" /\ err = <<>>
  /\ ExistingValue.indices = <<ByMessage>>
  /\ UpdatedValue.indices = <<ByMessage, ByMessage>>

(***************************************************************************)
(* Properties of submitDocument.                                           *)
(***************************************************************************)
DocumentActions == {"create", "replace", "delete"}

\* C18: every batch submitDocument passes to documents.broadcast has exactly
\* one non-empty sequence among create, replace and delete, the one of the
\* action, and that sequence holds exactly one document.
C18_BatchHasOneDocument ==
  op = "submitDocument" =>
    \A i \in DOMAIN batch :
      LET sizes == [a \in DocumentActions |->
                      IF a = "create" THEN Len(batch[i].create)
                      ELSE IF a = "replace" THEN Len(batch[i].replace)
                      ELSE Len(batch[i].delete)]
      IN /\ args.action \in DocumentActions
         /\ \A a \in DocumentActions : sizes[a] = (IF a = args.action THEN 1 ELSE 0)

\* C19: submitDocument with an action other than create, replace and delete
\* fails with an invalid-action error and broadcasts nothing.
C19_UnknownActionRejected ==
  (op = "submitDocument" /\ args.action \notin DocumentActions) =>
     /\ batch = <<>>
     /\ \A i \in DOMAIN sdkLog : sdkLog[i] # "documents.broadcast"
     /\ phase = "done" => err # <<>>

\* C20: for the action delete the batch broadcast has the one document in
\* delete and nothing in create and replace, and the document data is never
\* read: no error about it arises, whether it is absent, valid or malformed.
C20_DeleteIgnoresDocumentData ==
  (op = "submitDocument" /\ args.action = "delete") =>
     /\ \A i \in DOMAIN batch :
          batch[i] = [create |-> <<>>, replace |-> <<>>, delete |-> <<"existing">>]
     /\ Len(batch) <= 1
     /\ \A k \in DOMAIN err :
          err[k] \notin {"document-data is required for create action",
                         "document-data is required for replace action",
                         "SyntaxError"}
     /\ (phase = "done" /\ err = <<>>) => Len(batch) = 1

\* C20's case: a delete with malformed document data has been broadcast and
\* the operation has returned.
C20_Witness ==
  /\ op = "submitDocument" /\ args.action = "delete"
  /\ args.documentData.given /\ args.documentData.json = "malformed"
  /\ phase = "done" /\ err = <<>>
  /\ batch = <<[create |-> <<>>, replace |-> <<>>, delete |-> <<"existing">>]>>

\* the positions of a schema's properties are numbers, no two the same
DistinctPositions(schema) ==
  /\ \A i \in DOMAIN schema.properties : schema.properties[i].def.position.t = "number"
  /\ \A i, j \in DOMAIN schema.properties :
       schema.properties[i].def.position = schema.properties[j].def.position => i = j

IntegerAtLeastMinimum(str) ==
  /\ str # <<>>
  /\ \A i \in DOMAIN str : IsDigit(str[i])
  /\ LeadingDigits(str, 0) >= MINIMUM_TOPUP_AMOUNT

\* C23: topupIdentity with a top-up amount that is absent, non-numeric or
\* less than 50000 fails before the start-height lookup and before any SDK
\* call: no provider request is made, no client created, no SDK method called.
C23_TopUpOnlyWithValidAmount ==
  (op = "topupIdentity" /\ ~IntegerAtLeastMinimum(args.topupAmount)) =>
     /\ NothingExternal
     /\ resolver = "idle"

\* the messages of the validation errors
ValidationMessages ==
  {"Invalid identity name.", "Invalid contract definition", "Invalid indices format",
   "Invalid new properties", "document-data is required for create action",
   "document-data is required for replace action", "SyntaxError",
   "Topup amount must be at least"}

\* the operation has thrown the error of a validation or a presence check
CheckFailed ==
  /\ err # <<>>
  /\ err[Len(err)] \in ValidationMessages \cup MissingParameterMessages

\* C24: when a validation or a parameter-presence check fails in
\* registerName, registerContract, updateContract, submitDocument,
\* deleteDocument, createIdentity or topupIdentity, no state-changing SDK
\* method has been called, and none is called afterwards.
C24_NoStateChangeAfterFailedCheck ==
  (/\ op \in {"registerName", "registerContract", "updateContract", "submitDocument",
              "deleteDocument", "createIdentity", "topupIdentity"}
   /\ CheckFailed) =>
     \A i \in DOMAIN sdkLog : sdkLog[i] \notin StateChanging

\* updateContract has fetched the identity and the contract, rejected the
\* new properties and ended
C24_Witness ==
  /\ op = "updateContract" /\ phase = "done"
  /\ err # <<>> /\ err[Len(err)] = "Invalid new properties"
  /\ \E i \in DOMAIN sdkLog : sdkLog[i] = "contracts.get"

\* C28: the skipSynchronizationBeforeHeight value that dashClient passes to
\* the SDK is never negative, whatever height the library supplies.
C28_SkipHeightNeverNegative ==
  \A i \in DOMAIN clients :
     (clients[i].factory = "dashClient" /\ clients[i].skip # None) =>
        clients[i].skip[1] >= 0

(***************************************************************************)
(* Clients open at a time, and the resolver's requests.                    *)
(***************************************************************************)
OpenClients == {i \in DOMAIN clients : clients[i].open}

\* the requests made so far to a provider, answered or not
RequestsTo(provider) ==
  Cardinality({i \in DOMAIN netLog : netLog[i].req.provider = provider})
    + Cardinality({r \in inflight : r.provider = provider})

\* C30: at most one SDK client is open at any moment, the client of
\* getBestBlockHeight being disconnected before the operation's own client
\* is created; findStartHeight makes at most two requests to each provider,
\* four in all, and makes no request twice.
C30_OneClientFourRequests ==
  /\ Cardinality(OpenClients) <= 1
  /\ RequestsTo("rpc") <= 2
  /\ RequestsTo("insight") <= 2
  /\ Len(netLog) + Cardinality(inflight) <= 4
  /\ \A i, j \in DOMAIN netLog : netLog[i].req = netLog[j].req => i = j
  /\ \A r \in inflight : \A i \in DOMAIN netLog : netLog[i].req # r

\* the operation's client is open and the client of getBestBlockHeight,
\* created before it, is disconnected
C30_Witness ==
  /\ Len(clients) = 2
  /\ ~clients[1].open
  /\ clients[2].open
  /\ client = 2

(***************************************************************************)
(* The command-line handler (src/dashCLI.js): the checks before the        *)
(* dispatch, the defaults taken from the environment, and the switch that  *)
(* calls the library.  Here an option or a variable is undefined (not      *)
(* given), the empty string, or a non-empty string.                        *)
(***************************************************************************)
AVAILABLE_COMMANDS ==
  {"createWallet", "getUnusedAddress", "createIdentity", "retrieveIdentity",
   "topupIdentity", "registerName", "getIdentityIds", "registerContract",
   "updateContract", "retrieveContract", "retrieveContractHistory",
   "submitDocument", "retrieveDocuments", "deleteDocument",
   "listIdentityPublicKeys", "getPrivateKey"}

\* the functions of module.exports
Exports ==
  {"createWallet", "getUnusedAddress", "createIdentity", "retrieveIdentity",
   "topupIdentity", "registerName", "getIdentityIds", "registerContract",
   "updateContract", "retrieveContract", "retrieveContractHistory",
   "submitDocument", "retrieveDocuments", "deleteDocument",
   "listIdentityPublicKeys", "getPrivateKeyFromPublicKey"}

\* the switch: the property of dashLibrary each case calls
Switch ==
  [c \in AVAILABLE_COMMANDS |->
     CASE c = "createWallet" -> "createWallet"
       [] c = "getUnusedAddress" -> "getUnusedAddress"
       [] c = "createIdentity" -> "createIdentity"
       [] c = "retrieveIdentity" -> "retrieveIdentity"
       [] c = "topupIdentity" -> "topupIdentity"
       [] c = "registerName" -> "registerName"
       [] c = "getIdentityIds" -> "getIdentityIds"
       [] c = "registerContract" -> "registerContract"
       [] c = "updateContract" -> "updateContract"
       [] c = "retrieveContract" -> "retrieveContract"
       [] c = "retrieveContractHistory" -> "retrieveContractHistory"
       [] c = "submitDocument" -> "submitDocument"
       [] c = "retrieveDocuments" -> "retrieveDocuments"
       [] c = "deleteDocument" -> "deleteDocument"
       [] c = "listIdentityPublicKeys" -> "listIdentityPublicKeys"
       [] OTHER -> "getPrivateKey"]

\* a query object: its where clause (a list of conditions, when it has one)
\* and the rest of it (here a limit; 0: none)
Query(hasWhere, conds, limit) ==
  [where |-> [has |-> hasWhere, conds |-> conds], limit |-> limit]
\* {}
NoQuery == Query(FALSE, <<>>, 0)
\* --query: not given, or text that parses or does not
QueryArg(given, json, value) == [given |-> given, json |-> json, value |-> value]

\* the options of a command line on which nothing is given
NoOptions ==
  [network |-> Undefined, identityId |-> Undefined, address |-> Undefined,
   contractId |-> Undefined, documentId |-> Undefined, documentType |-> Undefined,
   contractDef |-> Undefined, newProperties |-> Undefined, indices |-> Undefined,
   documentData |-> Undefined, action |-> Undefined, publicKeyId |-> Undefined,
   query |-> QueryArg(FALSE, "other", NoQuery)]
\* an environment in which nothing is set
NoVariables ==
  [NETWORK |-> Undefined, IDENTITY_ID |-> Undefined, CONTRACT_ID |-> Undefined,
   DOCUMENT_ID |-> Undefined, ADDRESS |-> Undefined, MNEMONIC |-> Undefined]

\* a variant without the address check
PreDispatchError_noAddressCheck(c, o, e) ==
  IF Falsy(c) \/ c \notin AVAILABLE_COMMANDS THEN <<"Invalid command">>
  ELSE IF c # "createWallet" /\ Falsy(e.MNEMONIC) THEN <<"Please add your wallet mnemonic">>
  ELSE IF c = "createWallet" /\ ~Falsy(e.MNEMONIC)
  THEN <<"Cannot create a new wallet when MNEMONIC environment variable exists">>
  ELSE <<>>

\* the error the handler throws before the defaults and the dispatch
\* (<<>>: none)
PreDispatchError(c, o, e) ==
  IF Falsy(c) \/ c \notin AVAILABLE_COMMANDS THEN <<"Invalid command">>
  ELSE IF c # "createWallet" /\ Falsy(e.MNEMONIC) THEN <<"Please add your wallet mnemonic">>
  ELSE IF c = "createWallet" /\ ~Falsy(e.MNEMONIC)
  THEN <<"Cannot create a new wallet when MNEMONIC environment variable exists">>
  ELSE IF c \in {"createIdentity", "topupIdentity"} /\ Falsy(o.address) /\ Falsy(e.ADDRESS)
  THEN <<"requires --address parameter or ADDRESS environment variable">>
  ELSE <<>>

\* if (!options.x && process.env.X) options.x = process.env.X
Default(option, variable) ==
  IF Falsy(option) /\ ~Falsy(variable) THEN variable ELSE option

\* the options after the defaults from the environment
Defaults(o, e) ==
  [o EXCEPT !.address = Default(o.address, e.ADDRESS),
            !.identityId = Default(o.identityId, e.IDENTITY_ID),
            !.contractId = Default(o.contractId, e.CONTRACT_ID),
            !.documentId = Default(o.documentId, e.DOCUMENT_ID)]

\* the error a case of the switch throws before it calls the library
CaseError(c, o) ==
  CASE c = "registerContract" ->
         IF Falsy(o.contractDef) THEN <<"Contract definition required">> ELSE <<>>
    [] c = "updateContract" ->
         IF Falsy(o.newProperties) /\ Falsy(o.indices)
         THEN <<"New properties or indices required">>
         ELSE IF Falsy(o.identityId)
         THEN <<"Identity ID is required for updating contracts">>
         ELSE <<>>
    [] c = "submitDocument" ->
         IF Falsy(o.identityId) THEN <<"Identity ID is required for submitting documents">>
         ELSE IF Falsy(o.contractId) \/ Falsy(o.documentType)
         THEN <<"Contract ID and document type are required">>
         ELSE IF Falsy(o.action) THEN <<"Action (create/replace/delete) is required">>
         ELSE IF o.action # "delete" /\ Falsy(o.documentData)
         THEN <<"Document data is required for create/replace actions">>
         ELSE <<>>
    [] c = "retrieveDocuments" ->
         IF Falsy(o.contractId) \/ Falsy(o.documentType)
         THEN <<"Contract ID and document type are required">>
         ELSE IF o.query.given /\ o.query.json = "malformed" THEN <<"SyntaxError">>
         ELSE <<>>
    [] c = "deleteDocument" ->
         IF Falsy(o.identityId) THEN <<"Identity ID is required for deleting documents">>
         ELSE IF Falsy(o.contractId) \/ Falsy(o.documentType)
         THEN <<"Contract ID and document type are required">>
         ELSE IF Falsy(o.documentId) THEN <<"Document ID is required for deletion">>
         ELSE <<>>
    [] c = "listIdentityPublicKeys" ->
         IF Falsy(o.identityId) THEN <<"Identity ID is required">> ELSE <<>>
    [] c = "getPrivateKey" ->
         IF Falsy(o.identityId) THEN <<"Identity ID is required">>
         ELSE IF Falsy(o.publicKeyId) THEN <<"Public key ID is required">>
         ELSE <<>>
    [] OTHER -> <<>>

\* dashClient's network: args.network unless undefined, then
\* process.env.NETWORK unless undefined, then 'mainnet'
network(a, e) ==
  IF a.network # Undefined THEN a.network
  ELSE IF e.NETWORK # Undefined THEN e.NETWORK
  ELSE "mainnet"

\* a variant that adds the condition to the caller's where clause
retrieveDocuments_queryOpts_appended(documentId, queryOpts) ==
  IF ~Falsy(documentId)
  THEN [queryOpts EXCEPT !.where = [has |-> TRUE,
                                    conds |-> Append(@.conds, <<"$id", "==", documentId>>)]]
  ELSE queryOpts

\* retrieveDocuments: if (documentId) queryOpts.where = [["$id", "==", documentId]];
\* the query object then passed to documents.get
retrieveDocuments_queryOpts(documentId, queryOpts) ==
  IF ~Falsy(documentId)
  THEN [queryOpts EXCEPT !.where = [has |-> TRUE,
                                    conds |-> << <<"$id", "==", documentId>> >>]]
  ELSE queryOpts

\* const queryOpts = options.query ? JSON.parse(options.query) : {}
queryOpts == IF args.query.given THEN args.query.value ELSE NoQuery

\* what the library function called works with: the identifiers its helper
\* functions resolve from the options it is passed, the network of its
\* client, and (retrieveDocuments) the query it passes to documents.get
Use(fn) ==
  [fn |-> fn,
   identityId |-> getIdentityId, contractId |-> getContractId,
   documentId |-> getDocumentId, address |-> getAddress,
   network |-> network(args, env),
   query |-> IF fn = "retrieveDocuments"
             THEN retrieveDocuments_queryOpts(getDocumentId, queryOpts)
             ELSE NoQuery]

\* command lines and environments
OptionValues == {Undefined, Absent, "opt"}
VariableValues == {Undefined, Absent, "env"}
Flags == {Undefined, "given"}
Commands == AVAILABLE_COMMANDS \cup {Undefined, "bogus"}
Author1 == <<"author", "==", "a">>
QueryArgs ==
  {QueryArg(FALSE, "other", NoQuery), QueryArg(TRUE, "malformed", NoQuery)}
  \cup {QueryArg(TRUE, "object", q) :
          q \in {NoQuery, Query(FALSE, <<>>, 1), Query(TRUE, <<Author1>>, 0),
                 Query(TRUE, <<Author1, <<"title", "==", "t">> >>, 1)}}

CommandLines(c) ==
  CASE c \in {"createIdentity", "topupIdentity"} ->
         {[NoOptions EXCEPT !.address = a, !.network = n] :
            a \in OptionValues, n \in OptionValues}
    [] c \in {"retrieveIdentity", "registerName", "listIdentityPublicKeys"} ->
         {[NoOptions EXCEPT !.identityId = i] : i \in OptionValues}
    [] c = "getPrivateKey" ->
         {[NoOptions EXCEPT !.identityId = i, !.publicKeyId = k] :
            i \in OptionValues, k \in Flags}
    [] c = "registerContract" ->
         {[NoOptions EXCEPT !.identityId = i, !.contractDef = d] :
            i \in OptionValues, d \in Flags}
    [] c = "updateContract" ->
         {[NoOptions EXCEPT !.identityId = i, !.contractId = k,
                            !.newProperties = p, !.indices = x] :
            i \in OptionValues, k \in OptionValues, p \in Flags, x \in Flags}
    [] c \in {"retrieveContract", "retrieveContractHistory"} ->
         {[NoOptions EXCEPT !.contractId = k] : k \in OptionValues}
    [] c = "submitDocument" ->
         {[NoOptions EXCEPT !.identityId = i, !.contractId = k, !.documentType = t,
                            !.action = a, !.documentData = d, !.documentId = x] :
            i \in {Undefined, "opt"}, k \in {Undefined, "opt"}, t \in Flags,
            a \in {Undefined, "create", "delete"}, d \in Flags, x \in OptionValues}
    [] c = "retrieveDocuments" ->
         {[NoOptions EXCEPT !.contractId = k, !.documentType = t,
                            !.documentId = x, !.query = q] :
            k \in {Undefined, "opt"}, t \in Flags, x \in OptionValues, q \in QueryArgs}
    [] c = "deleteDocument" ->
         {[NoOptions EXCEPT !.identityId = i, !.contractId = k, !.documentType = t,
                            !.documentId = x] :
            i \in {Undefined, "opt"}, k \in {Undefined, "opt"}, t \in Flags,
            x \in OptionValues}
    [] OTHER -> {[NoOptions EXCEPT !.network = n] : n \in OptionValues}

Environments(c) ==
  LET base == {[NoVariables EXCEPT !.MNEMONIC = m] : m \in {Undefined, Absent, "mnemonic"}}
  IN CASE c \in {"createIdentity", "topupIdentity"} ->
            {[b EXCEPT !.ADDRESS = a, !.NETWORK = n] :
               b \in base, a \in VariableValues, n \in VariableValues}
       [] c \in {"retrieveIdentity", "registerName", "listIdentityPublicKeys",
                 "getPrivateKey", "registerContract"} ->
            {[b EXCEPT !.IDENTITY_ID = i] : b \in base, i \in VariableValues}
       [] c = "updateContract" ->
            {[b EXCEPT !.IDENTITY_ID = i, !.CONTRACT_ID = k] :
               b \in base, i \in VariableValues, k \in VariableValues}
       [] c \in {"retrieveContract", "retrieveContractHistory"} ->
            {[b EXCEPT !.CONTRACT_ID = k] : b \in base, k \in VariableValues}
       [] c \in {"submitDocument", "deleteDocument"} ->
            {[b EXCEPT !.DOCUMENT_ID = x] : b \in base, x \in VariableValues}
       [] c = "retrieveDocuments" ->
            {[b EXCEPT !.DOCUMENT_ID = x, !.CONTRACT_ID = k] :
               b \in base, x \in VariableValues, k \in VariableValues}
       [] OTHER -> {[b EXCEPT !.NETWORK = n] : b \in base, n \in VariableValues}

InitCLI ==
  /\ version = "current"
  /\ op = "dashCLI"
  /\ command \in Commands
  /\ options \in CommandLines(command)
  /\ args = options
  /\ env \in Environments(command)
  /\ called = <<>>
  /\ existingDocument = <<>>
  /\ pc = 1 /\ sub = "" /\ phase = "run" /\ inTry = TRUE
  /\ clients = <<>> /\ client = 0 /\ found = TRUE /\ sdkLog = <<>>
  /\ inflight = {} /\ netLog = <<>> /\ txs = <<>> /\ height = None
  /\ resolver = "idle" /\ err = <<>> /\ batch = <<>>
  /\ NoWork

Handling == op = "dashCLI" /\ phase = "run"

\* console.error(error.message): the handler's catch block
Report(error) ==
  /\ err' = error
  /\ phase' = "done"
  /\ UNCHANGED pc

\* the checks of the command, the mnemonic and the address
CliValidate ==
  /\ Handling /\ pc = 1
  /\ LET error == PreDispatchError(command, args, env)
     IN IF error # <<>> THEN Report(error)
        ELSE pc' = 2 /\ UNCHANGED <<phase, err>>
  /\ UNCHANGED <<inputs, net, batch, heap, documentSchema, updatedSchema, returned, cli,
                 sub, inTry, clients, client, found, sdkLog, height>>

\* the defaults from the environment variables
CliDefaults ==
  /\ Handling /\ pc = 2
  /\ args' = Defaults(args, env)
  /\ pc' = 3
  /\ UNCHANGED <<version, op, env, net, batch, heap, documentSchema, updatedSchema,
                 returned, cli, sub, phase, inTry, clients, client, found, sdkLog,
                 height, err>>

\* the case of the command: its own checks, then the call of the library
\* function, which returns or throws; calling a property the library does
\* not export is a TypeError
CliDispatch ==
  /\ Handling /\ pc = 3
  /\ LET error == CaseError(command, args)
         fn == Switch[command]
     IN IF error # <<>>
        THEN Report(error) /\ UNCHANGED called
        ELSE /\ called' = Append(called, Use(fn))
             /\ IF fn \notin Exports
                THEN Report(<<"TypeError">>)
                ELSE \E outcome \in {"ok", "throw"} :
                       IF outcome = "throw" THEN Report(<<"library error">>)
                       ELSE phase' = "done" /\ pc' = 4 /\ UNCHANGED err
  /\ UNCHANGED <<inputs, net, batch, heap, documentSchema, updatedSchema, returned,
                 command, options, existingDocument,
                 sub, inTry, clients, client, found, sdkLog, height>>

NextCLI == CliValidate \/ CliDefaults \/ CliDispatch
SpecCLI == InitCLI /\ [][NextCLI]_vars

(***************************************************************************)
(* Properties of the command-line handler.                                 *)
(***************************************************************************)
\* the value the stated priority yields: the option when given, else the
\* environment variable when set, else the default
Priority(option, variable, default) ==
  IF option # Undefined THEN option
  ELSE IF variable # Undefined THEN variable
  ELSE default

\* the same value, or no usable value on either side
Same(a, b) == a = b \/ (Falsy(a) /\ Falsy(b))

\* C22: the network, identity ID, contract ID, document ID and address a
\* library function works with are the command-line option when it is
\* given, else the environment variable, else the default (mainnet for the
\* network, none for the others): a given option is never overridden.
C22_OptionThenEnvironmentThenDefault ==
  \A k \in DOMAIN called :
     /\ called[k].network = Priority(options.network, env.NETWORK, "mainnet")
     /\ Same(called[k].identityId, Priority(options.identityId, env.IDENTITY_ID, Undefined))
     /\ Same(called[k].contractId, Priority(options.contractId, env.CONTRACT_ID, Undefined))
     /\ Same(called[k].documentId, Priority(options.documentId, env.DOCUMENT_ID, Undefined))
     /\ Same(called[k].address, Priority(options.address, env.ADDRESS, Undefined))

\* the command line is one the handler must refuse
Refused ==
  \/ command \notin AVAILABLE_COMMANDS
  \/ command # "createWallet" /\ Falsy(env.MNEMONIC)
  \/ command = "createWallet" /\ ~Falsy(env.MNEMONIC)
  \/ /\ command \in {"createIdentity", "topupIdentity"}
     /\ Falsy(options.address) /\ Falsy(env.ADDRESS)

\* C25: for a command that is not in the list, a command other than
\* createWallet without a mnemonic, createWallet with a mnemonic, or
\* createIdentity or topupIdentity without an address in the option and in
\* ADDRESS, the handler calls no library function and reports an error.
C25_RefusedCommandsCallNothing ==
  Refused => /\ called = <<>>
             /\ phase = "done" => err # <<>>

\* topupIdentity with a mnemonic and no address has ended in an error
C25_Witness ==
  /\ command = "topupIdentity" /\ ~Falsy(env.MNEMONIC)
  /\ Falsy(options.address) /\ Falsy(env.ADDRESS)
  /\ phase = "done" /\ err # <<>> /\ called = <<>>

\* the query the caller gave
CallerQuery == IF options.query.given THEN options.query.value ELSE NoQuery
\* the document ID available from the option or from DOCUMENT_ID
AvailableDocumentId ==
  IF ~Falsy(options.documentId) THEN options.documentId ELSE env.DOCUMENT_ID

\* C26: retrieveDocuments with a document ID available passes the caller's
\* query with its where clause replaced by the one condition
\* $id == documentId and its other fields kept; with none available it
\* passes the caller's query unchanged.
C26_WhereReplacedByDocumentId ==
  \A k \in DOMAIN called :
     called[k].fn = "retrieveDocuments" =>
        IF ~Falsy(AvailableDocumentId)
        THEN /\ called[k].query.where =
                  [has |-> TRUE, conds |-> << <<"$id", "==", AvailableDocumentId>> >>]
             /\ called[k].query.limit = CallerQuery.limit
        ELSE called[k].query = CallerQuery

\* retrieveDocuments was called with a query of two conditions and a limit
\* and a document ID from the environment
C26_Witness ==
  /\ called # <<>> /\ called[1].fn = "retrieveDocuments"
  /\ options.documentId = Undefined /\ env.DOCUMENT_ID = "env"
  /\ Len(CallerQuery.where.conds) = 2 /\ CallerQuery.limit = 1
  /\ called[1].query.where.conds = << <<"$id", "==", "env">> >>

\* C29: every command of the available-command list is dispatched to a
\* function the library exports.
C29_DispatchedFunctionsExported ==
  \A k \in DOMAIN called : called[k].fn \in Exports

(***************************************************************************)
(* submitDocument with action replace, from the fetch of the existing      *)
(* document on: the document is a sequence of fields, a value is a string  *)
(* or an object of string members.                                         *)
(***************************************************************************)
Field(name, value) == [name |-> name, value |-> value]
String(text) == [kind |-> "string", text |-> text, members |-> <<>>]
Object(members) == [kind |-> "object", text |-> "", members |-> members]

\* the position of the field of that name, 0 when there is none
FieldAt(doc, name) ==
  IF \E i \in DOMAIN doc : doc[i].name = name
  THEN CHOOSE i \in DOMAIN doc : doc[i].name = name
  ELSE 0

\* a variant that merges an object into the object the field holds
set_deepMerge(doc, key, value) ==
  LET i == FieldAt(doc, key)
  IN IF i = 0 THEN Append(doc, Field(key, value))
     ELSE IF doc[i].value.kind = "object" /\ value.kind = "object"
     THEN [doc EXCEPT ![i].value =
             Object(SelectSeq(@.members,
                              LAMBDA m : \A j \in DOMAIN value.members :
                                            value.members[j].name # m.name)
                    \o value.members)]
     ELSE [doc EXCEPT ![i].value = value]

\* existingDocument.set(key, value)
set(doc, key, value) ==
  LET i == FieldAt(doc, key)
  IN IF i = 0 THEN Append(doc, Field(key, value))
     ELSE [doc EXCEPT ![i].value = value]

RECURSIVE SetEach(_, _)
\* Object.entries(docData).forEach(([key, value]) => existingDocument.set(key, value))
SetEach(doc, entries) ==
  IF entries = <<>> THEN doc
  ELSE SetEach(set(doc, Head(entries).name, Head(entries).value), Tail(entries))

\* the documents the platform may hold, and the payloads of --document-data
A1 == Object(<<Field("a", "1"), Field("b", "2")>>)
A9 == Object(<<Field("a", "9")>>)
StoredDocuments ==
  { <<Field("message", String("m0")), Field("meta", A1)>>,
    <<Field("message", String("m0")), Field("author", String("x"))>>,
    <<Field("meta", A9)>> }
DataObjects ==
  {m \o t \o a :
     m \in {<<>>, <<Field("message", String("m1"))>>, <<Field("message", A9)>>},
     t \in {<<>>, <<Field("title", String("t"))>>},
     a \in {<<>>, <<Field("meta", A9)>>, <<Field("meta", String("flat"))>>,
            <<Field("meta", Object(<<Field("c", "3")>>))>>}}
DataArgs == {NotGiven, Json("malformed", <<>>)} \cup {Json("object", o) : o \in DataObjects}

InitReplace ==
  /\ version = "current"
  /\ op = "submitDocument"
  /\ args \in {[NoArgs EXCEPT !.identityId = "opt", !.contractId = "opt",
                              !.action = "replace", !.documentId = x, !.documentData = d] :
                 x \in {Absent, "opt"}, d \in DataArgs}
  /\ env \in {[NoEnv EXCEPT !.DOCUMENT_ID = x] : x \in {Absent, "env"}}
  /\ heap \in {(<<"platform">> :> d) : d \in StoredDocuments}
  /\ documentSchema = <<>> /\ updatedSchema = <<>> /\ returned = <<>>
  /\ command = Absent /\ options = NoArgs /\ called = <<>> /\ existingDocument = <<>>
  /\ pc = 1 /\ sub = "" /\ phase = "run" /\ inTry = TRUE
  /\ clients = <<[factory |-> "dashClient", open |-> TRUE, skip |-> None]>>
  /\ client = 1 /\ found = TRUE /\ sdkLog = <<"identities.get">>
  /\ inflight = {} /\ netLog = <<>> /\ txs = <<>> /\ height = None
  /\ resolver = "idle" /\ err = <<>> /\ batch = <<>>

Replacing == op = "submitDocument" /\ args.action = "replace" /\ phase = "run"

\* an error thrown in the try block: the finally block disconnects
Throw(msg) ==
  /\ err' = <<msg>>
  /\ phase' = "done"
  /\ clients' = Closed(client)
  /\ UNCHANGED pc

\* the document ID check and documents.get with where $id == documentId
ReplaceFetch ==
  /\ Replacing /\ pc = 1
  /\ IF getDocumentId = Absent
     THEN Throw("Document ID is required.") /\ UNCHANGED <<sdkLog, existingDocument, found>>
     ELSE /\ sdkLog' = Append(sdkLog, "documents.get")
          /\ \E outcome \in {"ok", "absent", "throw"} :
               CASE outcome = "ok" ->
                      /\ existingDocument' = heap[<<"platform">>]
                      /\ pc' = 2
                      /\ UNCHANGED <<found, phase, err, clients>>
                 [] outcome = "absent" ->
                      /\ found' = FALSE
                      /\ Throw("Document not found")
                      /\ UNCHANGED existingDocument
                 [] OTHER -> Throw("SDK error") /\ UNCHANGED <<existingDocument, found>>
  /\ UNCHANGED <<inputs, net, batch, heap, documentSchema, updatedSchema, returned,
                 command, options, called, sub, inTry, client, height>>

\* the document data check, JSON.parse, and the set of each entry
ReplaceSet ==
  /\ Replacing /\ pc = 2
  /\ IF ~args.documentData.given
     THEN Throw("document-data is required for replace action") /\ UNCHANGED existingDocument
     ELSE IF args.documentData.json # "object"
     THEN Throw("SyntaxError") /\ UNCHANGED existingDocument
     ELSE /\ existingDocument' = SetEach(existingDocument, args.documentData.value)
          /\ pc' = 3
          /\ UNCHANGED <<phase, err, clients>>
  /\ UNCHANGED <<inputs, net, batch, heap, documentSchema, updatedSchema, returned,
                 command, options, called, sub, inTry, client, found, sdkLog, height>>

\* documents.broadcast of the batch, return document.toJSON(), disconnect
ReplaceBroadcast ==
  /\ Replacing /\ pc = 3
  /\ sdkLog' = Append(sdkLog, "documents.broadcast")
  /\ batch' = Append(batch, documentBatch(args.action, "existing"))
  /\ \E outcome \in {"ok", "throw"} :
       IF outcome = "throw"
       THEN Throw("SDK error") /\ UNCHANGED returned
       ELSE /\ returned' = <<existingDocument>>
            /\ phase' = "done" /\ pc' = 4
            /\ clients' = Closed(client)
            /\ UNCHANGED err
  /\ UNCHANGED <<inputs, net, heap, documentSchema, updatedSchema,
                 cli, sub, inTry, client, found, height>>

NextReplace == ReplaceFetch \/ ReplaceSet \/ ReplaceBroadcast
SpecReplace == InitReplace /\ [][NextReplace]_vars

\* the value of a document's field, and whether it has the field
Has(doc, name) == FieldAt(doc, name) # 0
ValueOf(doc, name) == doc[FieldAt(doc, name)].value
FieldNames == {"message", "meta", "author", "title"}

====
